---- MODULE Spec2Model ----
(***************************************************************************)
(* A model of gammux (package internal): the PNG gAMA chunk writer and     *)
(* GammaMuxData, the halo compensation removeHalo, the quantizer           *)
(* calculateFullPixel and the supercell layout loop of GammaMuxImages.     *)
(*                                                                         *)
(* Bytes are integers 0..255 and byte slices are sequences.  Go's float64  *)
(* values are modelled by exact integer/rational arithmetic where the code *)
(* only multiplies and divides integers, and by fixed point (units of      *)
(* 1/FixOne) in the quantizer.                                             *)
(***************************************************************************)
EXTENDS Integers, Sequences, FiniteSets, TLC

VARIABLES
    \* GammaMuxData and writeGamaPngChunk
    pc,           \* position inside GammaMuxData / writeGamaPngChunk
    buf,          \* bytes.Buffer filled by png.Encode
    headerIndex,  \* result of bytes.Index
    dest,         \* the bytes the dest io.Writer has accepted
    writes,       \* the slices handed to dest.Write, in call order
    ret,          \* the *ErrChain returned (NoRet while running)
    gamma,        \* the gamma argument of writeGamaPngChunk, <<num, den>>
    steps,        \* the operations GammaMuxData has carried out, in order
    \* removeHalo
    hpc,          \* "call" before removeHalo runs, "done" after
    halo,         \* its arguments full, thumb, thumbeast, thumbsouth, thumbsoutheast
    haloOut,      \* its results newthumbeast, newthumbsouth, newthumbsoutheast
    divZero,      \* the channels whose factor was computed with a zero denominator
    nanByte,      \* what uint8(NaN) yields on this build
    \* GammaMuxImages
    ipc,          \* position inside GammaMuxImages
    thumbBounds,  \* <<Dx, Dy>> of thumbnail (the veil): the canvas size
    fullBounds,   \* <<Dx, Dy>> of full (the reveal)
    veil,         \* which veil picture thumbnail holds
    darkThumbnail, \* the darkened veil raster, <<>> before it is built
    dither,       \* the dither flag
    stretch,      \* the stretch flag
    smallBounds,  \* <<Dx, Dy>> of smallfull, the resampled reveal
    xoffset,
    yoffset,
    srcx,
    srcy,
    dstx,
    dsty,
    errcurr,      \* error row of the current output row (Go index i is i + 1)
    errnext,      \* error row of the next output row
    srcnrgba,     \* the last pixel read from smallfull
    errorval,     \* errorred, errorgreen, errorblue of the last pixel
    dst,          \* the canvas: per pixel the writes made and the value held
    reads,        \* the pixels smallfull.At has returned in this call, in order
    \* successive calls of GammaMuxImages
    runs,         \* the number of calls that have returned
    firstRun,     \* the input and the canvas of the first call that returned
    between,      \* a call with another input has returned since
    \* removeAlpha
    apc,          \* position inside removeAlpha
    alphaSrc,     \* src: its Bounds().Min, its size and its pixels as NRGBA64
    alphaDst,     \* dst, an NRGBA64 raster with origin (0, 0)
    alphaX,       \* x
    alphaY,       \* y
    alphaDstx,    \* dstx
    alphaDsty,    \* dsty
    \* the browser front end
    thumb,        \* main's thumb buffer
    full,         \* main's full buffer
    sending,      \* the fileOrErr a callback is sending and its channel, or NoSend
    readers,      \* per input, the FileReaders that have not fired yet
    timers,       \* the setTimeout callbacks that have not run yet
    shown,        \* the src of the element "muxxed"
    notice,       \* innerText and className of the element "error"
    changes,      \* the change events dispatched so far
    genArgs       \* the buffers the last gen call was made with, or NoCall

muxVars == <<pc, buf, headerIndex, dest, writes, ret, gamma, steps>>
haloVars == <<hpc, halo, haloOut, divZero, nanByte>>

imgVars == <<ipc, thumbBounds, fullBounds, veil, darkThumbnail, dither,
                   stretch, smallBounds,
             xoffset, yoffset, srcx, srcy, dstx, dsty, errcurr, errnext,
             srcnrgba, errorval, dst, reads>>
runVars == <<runs, firstRun, between>>

alphaVars == <<apc, alphaSrc, alphaDst, alphaX, alphaY, alphaDstx, alphaDsty>>

frontVars == <<thumb, full, sending, readers, timers, shown, notice, changes,
               genArgs>>

\* the variables GammaMuxData and writeGamaPngChunk leave alone
notMuxVars == <<hpc, halo, haloOut, divZero, nanByte, imgVars, alphaVars, runVars,
                frontVars>>
\* the variables removeHalo leaves alone
notHaloVars == <<muxVars, imgVars, alphaVars, runVars, frontVars>>
\* the variables GammaMuxImages leaves alone
notImgVars == <<muxVars, hpc, halo, haloOut, divZero, alphaVars, runVars,
                frontVars>>
\* the variables removeAlpha leaves alone
notAlphaVars == <<muxVars, haloVars, imgVars, runVars, frontVars>>

----------------------------------------------------------------------------
(* Bounds                                                                  *)

\* longest run of bytes in front of the header chunk (the PNG magic is 8)
MaxPrefix == 8
\* number of extra chunks, each carrying a copy of the header bytes as data
MaxEcho == 1
\* most bytes a failing dest.Write accepts before it reports its error
MaxPartial == 1
\* largest numerator of a gamma argument (denominators are 1, 2, 4)
MaxGammaNum == 48
\* the veil samples tried: HaloSteps + 1 values spread over 0..65535, darkened
HaloSteps == 5
\* the reveal samples tried: FullSteps + 1 values spread over 225..255
FullSteps == 2
\* largest veil (canvas) width and height
MaxThumbW == 5
MaxThumbH == 4
\* largest reveal width and height
MaxFull == 3
\* largest side of the source and of the target of resize on its own
MaxSide == 9
\* largest veil width of the dithered passes (the height is 2 * fullScaling)
MaxDitherW == 6
\* calls of GammaMuxImages made one after the other
MaxRuns == 3
\* largest veil width in those calls (the height is fullScaling)
MaxRunW == 4
\* largest width and height of the raster given to removeAlpha
MaxAlphaW == 2
MaxAlphaH == 2
\* most change events the two file inputs fire in one run of the front end
MaxChanges == 3

----------------------------------------------------------------------------
(* Constants of the program                                                *)

sourceGammaNum == 22
sourceGammaDen == 10
\* targetGamma = sourceGamma * 20, an exact constant expression (= 44)
targetGamma == <<sourceGammaNum * 20, sourceGammaDen>>

\* the smallest 8-bit value calculateFullPixel produces:
\* round(255 * (1/255)^(1/44)) = 225
minFullValue == 225

NoRet == [msg |-> "", cause |-> "running"]
RetNil == [msg |-> "", cause |-> "nil"]

\* ChainErr builds the error value; the cause is kept, not flattened
ChainErr(cause, message) == [msg |-> message, cause |-> cause]

----------------------------------------------------------------------------
(* Byte helpers                                                            *)

Pow2(n) == 2 ^ n

\* binary.BigEndian.PutUint32, for v < 2^31
PutUint32(v) ==
    << (v \div Pow2(24)) % 256, (v \div Pow2(16)) % 256,
       (v \div Pow2(8)) % 256, v % 256 >>

\* a plausible slip: truncation instead of math.Round
RoundDivTrunc(a, b) == a \div b

\* math.Round of the non-negative rational a/b: half away from zero
RoundDiv(a, b) == (2 * a + b) \div (2 * b)

\* the gAMA value: uint32(math.Round(100000/gamma))
gamaValue(g) == RoundDiv(100000 * g[2], g[1])

(* hash/crc32 with the IEEE polynomial (reflected, 0xEDB88320), bit by     *)
(* bit.  A CRC register is the pair <<high 16 bits, low 16 bits>>.         *)
IEEE == <<60856, 33568>>                       \* 0xEDB8, 0x8320

\* bit i of a xor b, in place
XorBit(a, b, i) == (((a \div Pow2(i)) + (b \div Pow2(i))) % 2) * Pow2(i)

\* a xor b for 16-bit a and b
Xor(a, b) ==
    XorBit(a, b, 0) + XorBit(a, b, 1) + XorBit(a, b, 2) + XorBit(a, b, 3)
    + XorBit(a, b, 4) + XorBit(a, b, 5) + XorBit(a, b, 6) + XorBit(a, b, 7)
    + XorBit(a, b, 8) + XorBit(a, b, 9) + XorBit(a, b, 10) + XorBit(a, b, 11)
    + XorBit(a, b, 12) + XorBit(a, b, 13) + XorBit(a, b, 14) + XorBit(a, b, 15)

crcShift(c) ==
    LET hi == c[1] \div 2
        lo == (c[2] \div 2) + (c[1] % 2) * 32768
    IN  IF c[2] % 2 = 1 THEN <<Xor(hi, IEEE[1]), Xor(lo, IEEE[2])>>
        ELSE <<hi, lo>>

RECURSIVE crcShiftN(_, _)
crcShiftN(c, n) ==
    IF n = 0 \/ c[1] < 0 THEN c ELSE crcShiftN(crcShift(c), n - 1)

crcByte(c, b) == crcShiftN(<<c[1], Xor(c[2], b)>>, 8)

RECURSIVE crcUpdate(_, _)
crcUpdate(c, p) ==
    IF p = <<>> \/ c[1] < 0 THEN c ELSE crcUpdate(crcByte(c, Head(p)), Tail(p))

\* crc.Sum32() of the bytes p, as the four bytes PutUint32 stores
ChecksumIEEE(p) ==
    LET c == crcUpdate(<<65535, 65535>>, p)
        hi == 65535 - c[1]
        lo == 65535 - c[2]
    IN  << hi \div 256, hi % 256, lo \div 256, lo % 256 >>

\* the slice p[lo:hi] of Go (0-based, hi exclusive)
Slice(p, lo, hi) == SubSeq(p, lo + 1, hi)

----------------------------------------------------------------------------
(* writeGamaPngChunk: the record handed to w.Write                         *)

gamaTag == <<0, 0, 0, 4, 103, 65, 77, 65>>     \* 0,0,0,4,'g','A','M','A'

\* a plausible slip: the CRC taken over the length field as well
gamaBufCrcAll(g) ==
    LET body == gamaTag \o PutUint32(gamaValue(g))
    IN  body \o ChecksumIEEE(Slice(body, 0, 12))

gamaBuf(g) ==
    LET body == gamaTag \o PutUint32(gamaValue(g))
    IN  body \o ChecksumIEEE(Slice(body, 4, 12))

----------------------------------------------------------------------------
(* The byte streams png.Encode may leave in buf.  The encoder is an        *)
(* external collaborator: besides the stream a PNG encoder produces (the   *)
(* 8-byte magic, IHDR, IDAT, IEND) the family holds streams with fewer or  *)
(* more bytes in front of the header chunk, streams whose first chunk is   *)
(* not IHDR, and streams in which the header bytes occur a second time as  *)
(* the data of a later chunk.                                              *)

PngMagic == <<137, 80, 78, 71, 13, 10, 26, 10>>
ihdrSig == <<0, 0, 0, 13, 73, 72, 68, 82>>     \* 0,0,0,13,'I','H','D','R'
IhdrChunk == ihdrSig \o <<0,0,0,1, 0,0,0,1, 8, 6, 0, 0, 0>> \o <<31, 21, 196, 137>>
JhdrChunk == <<0,0,0,13, 74,72,68,82>> \o <<0,0,0,1, 0,0,0,1, 8, 6, 0, 0, 0>>
                 \o <<76, 143, 159, 13>>
IdatChunk == <<0,0,0,13, 73,68,65,84, 120,156,99,120,200,192,240,31,0,4,136,1,225,
               166,104,73,235>>
IendChunk == <<0,0,0,0, 73,69,78,68, 174,66,96,130>>
EchoChunk == <<0,0,0,25, 116,69,88,116>> \o IhdrChunk \o <<226, 135, 98, 190>>

Prefix(k) == [i \in 1..k |-> IF i <= 8 THEN PngMagic[i] ELSE 10]

RECURSIVE Echoes(_)
Echoes(e) == IF e = 0 THEN <<>> ELSE EchoChunk \o Echoes(e - 1)

Stream(k, hdr, e) ==
    Prefix(k) \o (IF hdr THEN IhdrChunk ELSE JhdrChunk) \o Echoes(e)
        \o IdatChunk \o IendChunk

EncodedStreams ==
    { Stream(k, hdr, e) : k \in 0..MaxPrefix, hdr \in BOOLEAN, e \in 0..MaxEcho }

----------------------------------------------------------------------------
(* GammaMuxData                                                            *)

Min(S) == CHOOSE m \in S : \A n \in S : m <= n
Max(S) == CHOOSE m \in S : \A n \in S : m >= n

Hits(s, sep) ==
    { i \in 0..(Len(s) - Len(sep)) : Slice(s, i, i + Len(sep)) = sep }

\* a plausible slip: the last occurrence instead of the first
IndexLast(s, sep) == IF Hits(s, sep) = {} THEN -1 ELSE Max(Hits(s, sep))

\* bytes.Index: the first occurrence of sep in s, or -1
Index(s, sep) == IF Hits(s, sep) = {} THEN -1 ELSE Min(Hits(s, sep))

\* a plausible slip: the CRC of the header chunk left out of the offset
headerIndexEndNoCrc(hi) == hi + 13 + 4 + 4

headerIndexEnd(hi) == hi + 13 + 4 + 4 + 4

\* a plausible slip: the second slice starts where the chunk data ends
restOfBufEarly(b, hi) == Slice(b, headerIndexEnd(hi) - 4, Len(b))

\* buf.Bytes()[headerIndexEnd:]
restOfBuf(b, hi) == Slice(b, headerIndexEnd(hi), Len(b))

\* a plausible slip: the first slice starts at the header chunk
headerPartFromIndex(b, hi) == Slice(b, hi, headerIndexEnd(hi))

\* buf.Bytes()[:headerIndexEnd]
headerPart(b, hi) == Slice(b, 0, headerIndexEnd(hi))

\* dest.Write(p): all of p is accepted, or the write fails after accepting
\* at most MaxPartial bytes and GammaMuxData returns ChainErr(err, msg)
DestWrite(p, okpc, msg) ==
    /\ writes' = Append(writes, p)
    /\ \/ /\ dest' = dest \o p
          /\ pc' = okpc
          /\ ret' = IF okpc = "done" THEN RetNil ELSE ret
       \/ \E k \in 0..MaxPartial :
             /\ k < Len(p)
             /\ dest' = dest \o SubSeq(p, 1, k)
             /\ pc' = "done"
             /\ ret' = ChainErr("err", msg)

Fail(cause, msg) ==
    /\ pc' = "done"
    /\ ret' = ChainErr(cause, msg)

DecodeThumbnail ==
    /\ pc = "decodeThumbnail"
    /\ steps' = Append(steps, "decodeThumbnail")
    /\ \/ pc' = "decodeFull" /\ ret' = ret
       \/ Fail("err", "Unable to decode thumbnail")
    /\ UNCHANGED <<buf, headerIndex, dest, writes, gamma, notMuxVars>>

DecodeFull ==
    /\ pc = "decodeFull"
    /\ steps' = Append(steps, "decodeFull")
    /\ \/ pc' = "muxImages" /\ ret' = ret
       \/ Fail("err", "Unable to decode full")
    /\ UNCHANGED <<buf, headerIndex, dest, writes, gamma, notMuxVars>>

\* GammaMuxImages always returns a nil *ErrChain
MuxImages ==
    /\ pc = "muxImages"
    /\ steps' = Append(steps, "muxImages")
    /\ pc' = "encode"
    /\ UNCHANGED <<buf, headerIndex, dest, writes, ret, gamma, notMuxVars>>

Encode ==
    /\ pc = "encode"
    /\ steps' = Append(steps, "encode")
    /\ \/ \E s \in EncodedStreams : buf' = s /\ pc' = "index" /\ ret' = ret
       \/ buf' = buf /\ Fail("err", "Unable to encode dest PNG")
    /\ UNCHANGED <<headerIndex, dest, writes, gamma, notMuxVars>>

LocateHeader ==
    /\ pc = "index"
    /\ steps' = Append(steps, "index")
    /\ headerIndex' = Index(buf, ihdrSig)
    /\ IF headerIndex' <= 0
         THEN Fail("nil", "PNG missing header")
         ELSE pc' = "writeHeader" /\ ret' = ret
    /\ UNCHANGED <<buf, dest, writes, gamma, notMuxVars>>

WriteHeader ==
    /\ pc = "writeHeader"
    /\ steps' = Append(steps, "writeHeader")
    /\ DestWrite(headerPart(buf, headerIndex), "writeGama",
                 "Unable to write PNG header")
    /\ UNCHANGED <<buf, headerIndex, gamma, notMuxVars>>

\* writeGamaPngChunk(w, g), returning to okpc
writeGamaPngChunk(g, okpc) ==
    /\ gamma' = g
    /\ DestWrite(gamaBuf(g), okpc, "Unable to write PNG gAMA chunk")

WriteGama ==
    /\ pc = "writeGama"
    /\ steps' = Append(steps, "writeGama")
    /\ writeGamaPngChunk(targetGamma, "writeRest")
    /\ UNCHANGED <<buf, headerIndex, notMuxVars>>

WriteRest ==
    /\ pc = "writeRest"
    /\ steps' = Append(steps, "writeRest")
    /\ DestWrite(restOfBuf(buf, headerIndex), "done", "Unable to write PNG header")
    /\ UNCHANGED <<buf, headerIndex, gamma, notMuxVars>>

\* removeHalo is not running
HaloIdle ==
    /\ hpc = "idle"
    /\ halo = <<>>
    /\ haloOut = <<>>
    /\ divZero = {}

\* no call of GammaMuxImages has returned
RunIdle ==
    /\ runs = 0
    /\ firstRun = <<>>
    /\ between = FALSE

\* what sending holds while no callback is in a channel send
NoSend == <<>>

\* what genArgs holds before the first call of gen
NoCall == <<>>

\* the front end is not running
FrontIdle ==
    /\ thumb = <<>>
    /\ full = <<>>
    /\ sending = NoSend
    /\ readers = <<>>
    /\ timers = 0
    /\ shown = ""
    /\ notice = <<>>
    /\ changes = 0
    /\ genArgs = NoCall

\* removeAlpha is not running
AlphaIdle ==
    /\ apc = "idle"
    /\ alphaSrc = <<>>
    /\ alphaDst = <<>>
    /\ alphaX = 0
    /\ alphaY = 0
    /\ alphaDstx = 0
    /\ alphaDsty = 0

\* GammaMuxImages is not running
ImgIdle ==
    /\ ipc = "idle"
    /\ thumbBounds = <<0, 0>>
    /\ fullBounds = <<0, 0>>
    /\ veil = "black"
    /\ darkThumbnail = <<>>
    /\ dither = FALSE
    /\ stretch = FALSE
    /\ smallBounds = <<0, 0>>
    /\ xoffset = 0
    /\ yoffset = 0
    /\ srcx = 0
    /\ srcy = 0
    /\ dstx = 0
    /\ dsty = 0
    /\ errcurr = <<>>
    /\ errnext = <<>>
    /\ srcnrgba = <<>>
    /\ errorval = <<>>
    /\ dst = <<>>
    /\ reads = <<>>

MuxInit ==
    /\ pc = "decodeThumbnail"
    /\ buf = <<>>
    /\ headerIndex = -1
    /\ dest = <<>>
    /\ writes = <<>>
    /\ ret = NoRet
    /\ gamma = targetGamma
    /\ steps = <<>>
    /\ HaloIdle
    /\ nanByte = 0
    /\ ImgIdle
    /\ AlphaIdle
    /\ RunIdle
    /\ FrontIdle

MuxNext ==
    \/ DecodeThumbnail
    \/ DecodeFull
    \/ MuxImages
    \/ Encode
    \/ LocateHeader
    \/ WriteHeader
    \/ WriteGama
    \/ WriteRest

(* writeGamaPngChunk on its own, for any gamma argument                    *)

Gammas == { <<n, d>> : n \in 1..MaxGammaNum, d \in {1, 2, 4} }

GamaInit ==
    /\ pc = "gamaCall"
    /\ gamma \in Gammas
    /\ buf = <<>>
    /\ headerIndex = -1
    /\ dest = <<>>
    /\ writes = <<>>
    /\ ret = NoRet
    /\ steps = <<>>
    /\ HaloIdle
    /\ nanByte = 0
    /\ ImgIdle
    /\ AlphaIdle
    /\ RunIdle
    /\ FrontIdle

GamaCall ==
    /\ pc = "gamaCall"
    /\ steps' = Append(steps, "gamaCall")
    /\ writeGamaPngChunk(gamma, "done")
    /\ UNCHANGED <<buf, headerIndex, notMuxVars>>

GamaNext == GamaCall

----------------------------------------------------------------------------
(* removeHalo                                                              *)

nrgba64Max == 65535
nrgbaMax == 255
fullScaling == 2

\* thumbnailDarkenFactor is the float64 0.73218611909136, an irrational
\* power.  It lies a hair below 20551/28068, and with that fraction
\* DarkenScale below equals uint16(float64(c) * thumbnailDarkenFactor) for
\* every c in 0..65535.
thumbnailDarkenFactor == <<20551, 28068>>

\* the integer part of c * thumbnailDarkenFactor, for c >= 0
DarkenScale(c) ==
    IF c = 0 THEN 0
    ELSE (c * thumbnailDarkenFactor[1] - 1) \div thumbnailDarkenFactor[2]

\* GammaMuxData stopped before it started
MuxIdle ==
    /\ pc = "idle"
    /\ buf = <<>>
    /\ headerIndex = -1
    /\ dest = <<>>
    /\ writes = <<>>
    /\ ret = NoRet
    /\ gamma = targetGamma
    /\ steps = <<>>

\* math.Round(float64(x) * num / den) for 0 <= num <= den, x < 65536,
\* computed in two halves so that no product exceeds 31 bits
MulDivRound(x, num, den) ==
    LET a == (x \div 256) * num
        t == (a % den) * 256 + (x % 256) * num
        q == (a \div den) * 256 + (t \div den)
    IN  IF 2 * (t % den) >= den THEN q + 1 ELSE q

\* a plausible slip: the comparison against the black ceiling left out
clampRoundNoCeiling(x, factor, nan) ==
    IF factor[2] = 0 THEN nan
    ELSE IF factor[1] < 0 THEN 0
    ELSE MulDivRound(x, factor[1], factor[2]) \div 256

\* a plausible slip: v is rounded up instead of truncated by uint8(v)
clampRoundUp(x, factor, nan) ==
    IF factor[2] = 0 THEN nan
    ELSE IF factor[1] < 0 THEN 0
    ELSE LET r == MulDivRound(x, factor[1], factor[2])
         IN  IF r > DarkenScale(nrgbaMax * 256) THEN DarkenScale(nrgbaMax)
             ELSE (r + 255) \div 256

(* clampround(float64(x) * factor), factor = <<num, den>>.  With den = 0   *)
(* the factor is +Inf, -Inf or NaN and x is 0 (the three samples sum to    *)
(* 0), so val is NaN: both comparisons are false and the result is         *)
(* uint8(NaN), which Go leaves to the implementation.  With num < 0 val    *)
(* is <= 0 and the result is 0.  Otherwise v = Round(val)/256 exceeds      *)
(* thumbnailDarkenFactor*255 exactly when Round(val) exceeds the integer   *)
(* part of thumbnailDarkenFactor*255*256.                                  *)
clampround(x, factor, nan) ==
    IF factor[2] = 0 THEN nan
    ELSE IF factor[1] < 0 THEN 0
    ELSE LET r == MulDivRound(x, factor[1], factor[2])
         IN  IF r > DarkenScale(nrgbaMax * 256) THEN DarkenScale(nrgbaMax)
             ELSE r \div 256

Channels == {"R", "G", "B"}

\* rdenom, gdenom, bdenom
haloDenom(h, c) == h.thumbeast[c] + h.thumbsouth[c] + h.thumbsoutheast[c]

\* a plausible slip: the top-left sample left out of the numerator
haloFactorNoThumb(h, c) ==
    <<haloDenom(h, c) - h.full[c], haloDenom(h, c)>>

\* rfactor, gfactor, bfactor as <<numerator, denominator>>
haloFactor(h, c) ==
    <<haloDenom(h, c) + h.thumb[c] - h.full[c], haloDenom(h, c)>>

haloPixel(h, px, nan) ==
    [R |-> clampround(px.R, haloFactor(h, "R"), nan),
     G |-> clampround(px.G, haloFactor(h, "G"), nan),
     B |-> clampround(px.B, haloFactor(h, "B"), nan),
     A |-> px.A \div 256]

\* the three colours removeHalo returns
removeHaloResult(h, nan) ==
    [newthumbeast |-> haloPixel(h, h.thumbeast, nan),
     newthumbsouth |-> haloPixel(h, h.thumbsouth, nan),
     newthumbsoutheast |-> haloPixel(h, h.thumbsoutheast, nan)]

(* The arguments GammaMuxImages can pass: darkened veil samples are        *)
(* uint16(c * thumbnailDarkenFactor), at most DarkenScale(65535); the      *)
(* reveal sample is an 8-bit value of calculateFullPixel, 225..255,        *)
(* widened to 16 bits (v * 0x101).                                         *)

\* the outcomes of uint8(NaN): 0 (amd64, arm64, wasm), 255 (riscv64, mips)
NaNBytes == {0, 255}

VeilSamples ==
    { DarkenScale((k * nrgba64Max) \div HaloSteps) : k \in 0..HaloSteps }

FullSamples ==
    { (minFullValue + ((k * (nrgbaMax - minFullValue)) \div FullSteps)) * 257 :
        k \in 0..FullSteps }

\* a veil colour with three different channels
VeilColor(x) ==
    [R |-> x, G |-> DarkenScale(nrgba64Max) - x, B |-> x \div 2, A |-> nrgba64Max]
GrayColor(x) == [R |-> x, G |-> x, B |-> x, A |-> nrgba64Max]

HaloInputs ==
    [full : {GrayColor(f) : f \in FullSamples},
     thumb : {VeilColor(x) : x \in VeilSamples},
     thumbeast : {VeilColor(x) : x \in VeilSamples},
     thumbsouth : {VeilColor(x) : x \in VeilSamples},
     thumbsoutheast : {VeilColor(x) : x \in VeilSamples}]

HaloInit ==
    /\ hpc = "call"
    /\ halo \in HaloInputs
    /\ haloOut = <<>>
    /\ divZero = {}
    /\ nanByte \in NaNBytes
    /\ MuxIdle
    /\ ImgIdle
    /\ AlphaIdle
    /\ RunIdle
    /\ FrontIdle

removeHalo ==
    /\ hpc = "call"
    /\ haloOut' = removeHaloResult(halo, nanByte)
    /\ divZero' = {c \in Channels : haloDenom(halo, c) = 0}
    /\ hpc' = "done"
    /\ UNCHANGED <<halo, nanByte, notHaloVars>>

HaloNext == removeHalo

----------------------------------------------------------------------------
(* calculateFullPixel.  A float64 in [0, 1] is held in fixed point, FixOne *)
(* units to 1.0, so that c/65535 is exact for every 16-bit c and           *)
(* 1.0/255 is exact as well.                                               *)

FixOne == nrgba64Max * 4096

\* low := 1.0 / newMaxValue
lowValue == FixOne \div nrgbaMax

\* a plausible slip: the clamp left out
nonnegOff(in) == in

nonneg(in) == IF in < lowValue THEN lowValue ELSE in

\* math.Pow(k/255, targetGamma) for k = 160..255, rounded to the nearest
\* unit; below 160 the power is less than half a unit
PowTable ==
    <<
       0, 0, 1, 1, 1, 1, 2, 2,
       3, 4, 5, 6, 8, 10, 13, 17,
       22, 28, 36, 46, 59, 76, 96, 123,
       156, 198, 251, 318, 402, 507, 640, 806,
       1015, 1275, 1601, 2007, 2514, 3145, 3929, 4905,
       6115, 7615, 9474, 11773, 14615, 18123, 22450, 27782,
       34344, 42413, 52326, 64490, 79404, 97672, 120025, 147353,
       180730, 221459, 271113, 331594, 405194, 494681, 603387, 735325,
       895320, 1089171, 1323843, 1607693, 1950736, 2364975, 2864772, 3467308,
       4193114, 5066708, 6117346, 7379913, 8895973, 10715009, 12895893, 15508613,
       18636311, 22377687, 26849822, 32191510, 38567161, 46171398, 55234449, 66028473,
       78874981, 94153525, 112311879, 133877951, 159473713, 189831485, 225812950, 268431360
    >>

\* the least e with round(255 * e^(1/targetGamma)) >= k, for k = 160..255:
\* ((k - 0.5)/255)^targetGamma rounded up to a unit
ThreshTable ==
    <<
       1, 1, 1, 1, 1, 2, 2, 2,
       3, 4, 5, 6, 8, 10, 12, 16,
       20, 25, 33, 42, 53, 67, 86, 109,
       139, 176, 223, 283, 358, 452, 570, 719,
       905, 1138, 1429, 1793, 2247, 2813, 3516, 4391,
       5478, 6825, 8496, 10563, 13119, 16277, 20174, 24978,
       30894, 38171, 47116, 58098, 71569, 88077, 108286, 133005,
       163210, 200085, 245061, 299868, 366594, 447759, 546399, 666172,
       811478, 987608, 1200918, 1459038, 1771116, 2148119, 2603177, 3152001,
       3813372, 4609730, 5567860, 6719711, 8103366, 9764179, 11756129, 14143412,
       17002317, 20423439, 24514287, 29402348, 35238694, 42202221, 50504626, 60396247,
       72172917, 86183993, 102841763, 122632461, 146129146, 174006769, 207059764, 246222608
    >>

tableBase == 160

PowFix(k) == IF k < tableBase THEN 0 ELSE PowTable[k - tableBase + 1]

PowThresh(k) ==
    IF k = 0 THEN 0
    ELSE IF k < tableBase THEN 1
    ELSE ThreshTable[k - tableBase + 1]

\* the largest k in lo..hi with PowThresh(k) <= e, given PowThresh(lo) <= e
RECURSIVE LastBelow(_, _, _)
LastBelow(e, lo, hi) ==
    IF lo = hi THEN lo
    ELSE LET mid == (lo + hi + 1) \div 2
         IN  IF PowThresh(mid) <= e THEN LastBelow(e, mid, hi)
             ELSE LastBelow(e, lo, mid - 1)

\* scaleClamp(math.Pow(e, 1/targetGamma), newMaxValue)
scaleClamp(e) ==
    IF e >= FixOne THEN nrgbaMax
    ELSE IF e < 1 THEN 0
    ELSE LastBelow(e, 0, nrgbaMax)

\* the error rows hold their values in sixteenths of a unit, so that
\* diff * w / 16 is kept without loss, as float64 keeps it at this resolution
Sixteenths == 16

\* a plausible slip: the residual spread in four equal shares
shareEqual(d, w) == d * 4

\* diff * w / 16 for one channel, in sixteenths of a unit
share(d, w) == d * w

\* the dithererr fields r, g, b are named R, G, B like the colour channels;
\* sources lists the weights (sixteenths) of the deposits the slot has
\* received, in the order they were made
ZeroErr == [R |-> 0, G |-> 0, B |-> 0, sources |-> <<>>]

\* a plausible slip: the row left by the previous call used again when it
\* has the right length
makeRowReused(n) ==
    IF Len(errnext) = n THEN errnext ELSE [i \in 1..n |-> ZeroErr]

\* a plausible slip: one padding slot only
rowLenOnePad(w) == w + 1

\* smallfull.Bounds().Dx()+2, the length of an error row
rowLen(w) == w + 2

\* make([]dithererr, n)
makeRow(n) == [i \in 1..n |-> ZeroErr]

\* a plausible slip: the deposit made one slot further right
DepositNextSlot(row, i, diff, w) ==
    [row EXCEPT ![Min({i + 2, Len(row)})] =
                           [R |-> @.R + share(diff.R, w),
                            G |-> @.G + share(diff.G, w),
                            B |-> @.B + share(diff.B, w),
                            sources |-> Append(@.sources, w)]]

\* row[i] += diff * w / 16, per channel (i is the Go index)
Deposit(row, i, diff, w) ==
    [row EXCEPT ![i + 1] = [R |-> @.R + share(diff.R, w),
                            G |-> @.G + share(diff.G, w),
                            B |-> @.B + share(diff.B, w),
                            sources |-> Append(@.sources, w)]]

\* a plausible slip: the +1 offset left out of the read
readSlotNoOffset(x) == x

\* srcx+1, the index of the slot of column srcx in the current row
readSlot(x) == x + 1

\* errorred = nonneg(red + errcurr[srcx+1].r), for one channel value c; the
\* pending error is held in sixteenths and the sum is taken down to a whole
\* unit, which decides every comparison with a whole-unit threshold as the
\* exact sum does
errorOf(c, pending) ==
    nonneg(c * (FixOne \div nrgba64Max) + (pending \div Sixteenths))

\* diffred = errorred - math.Pow(roundred/newMaxValue, targetGamma)
diffOf(e) == e - PowFix(scaleClamp(e))

\* a plausible slip: the error is spread whatever the dither flag says
calculateFullPixelAlwaysDithers(x, px, dith, ecurr, enext) ==
    LET slot == ecurr[readSlot(x) + 1]
        err == [R |-> errorOf(px.R, slot.R),
                G |-> errorOf(px.G, slot.G),
                B |-> errorOf(px.B, slot.B)]
        diff == [R |-> diffOf(err.R), G |-> diffOf(err.G), B |-> diffOf(err.B)]
    IN  [ errorval |-> err,
          pixel |-> [R |-> scaleClamp(err.R), G |-> scaleClamp(err.G),
                     B |-> scaleClamp(err.B), A |-> px.A \div 256],
          errcurr |-> Deposit(ecurr, x + 2, diff, 7),
          errnext |-> Deposit(Deposit(Deposit(enext, x, diff, 3),
                                      x + 1, diff, 5), x + 2, diff, 1) ]

\* calculateFullPixel: the clamped values, the pixel returned and the two
\* error rows as the call leaves them
calculateFullPixel(x, px, dith, ecurr, enext) ==
    LET slot == ecurr[readSlot(x) + 1]
        err == [R |-> errorOf(px.R, slot.R),
                G |-> errorOf(px.G, slot.G),
                B |-> errorOf(px.B, slot.B)]
        diff == [R |-> diffOf(err.R), G |-> diffOf(err.G), B |-> diffOf(err.B)]
    IN  [ errorval |-> err,
          pixel |-> [R |-> scaleClamp(err.R), G |-> scaleClamp(err.G),
                     B |-> scaleClamp(err.B), A |-> px.A \div 256],
          errcurr |-> IF dith THEN Deposit(ecurr, x + 2, diff, 7) ELSE ecurr,
          errnext |-> IF dith
                        THEN Deposit(Deposit(Deposit(enext, x, diff, 3),
                                             x + 1, diff, 5), x + 2, diff, 1)
                        ELSE enext ]

----------------------------------------------------------------------------
(* GammaMuxImages                                                          *)

\* a plausible slip: the division by targetScaleDown left out
scaleDownOff(n, targetScaleDown) == n

\* n / targetScaleDown, Go's integer division of a non-negative int
scaleDown(n, targetScaleDown) == n \div targetScaleDown

\* a plausible slip: the scaled side not divided by targetScaleDown
fitSideFull(side, other, target, targetScaleDown) == (side * target) \div other

\* src side * target side / src other side / targetScaleDown: the side that
\* keeps the aspect ratio.  int is taken as 64 bits wide, so that the
\* product of two image sides does not wrap
fitSide(side, other, target, targetScaleDown) ==
    ((side * target) \div other) \div targetScaleDown

\* a plausible slip: the whole gap used as the offset
centreNoHalf(target, scaled, targetScaleDown) == target - scaled * targetScaleDown

\* (targetBounds.Dy() - newTargetBounds.Dy()*targetScaleDown) / 2
centre(target, scaled, targetScaleDown) ==
    (target - scaled * targetScaleDown) \div 2

\* a plausible slip: the comparison turned round
srcIsWiderSwapped(src, targetBounds) ==
    src[1] * targetBounds[2] < targetBounds[1] * src[2]

\* line 558: the source image is wider than the target, by cross-multiplication
srcIsWider(src, targetBounds) ==
    src[1] * targetBounds[2] > targetBounds[1] * src[2]

\* resize: the bounds of the resampled image and the two offsets
resize(src, targetBounds, targetScaleDown, str) ==
    IF str
      THEN [bounds |-> << scaleDown(targetBounds[1], targetScaleDown),
                          scaleDown(targetBounds[2], targetScaleDown) >>,
            xoffset |-> 0, yoffset |-> 0]
      ELSE IF srcIsWider(src, targetBounds)
        THEN LET y == fitSide(src[2], src[1], targetBounds[1], targetScaleDown)
             IN  [bounds |-> << targetBounds[1] \div targetScaleDown, y >>,
                  xoffset |-> 0,
                  yoffset |-> centre(targetBounds[2], y, targetScaleDown)]
        ELSE LET x == fitSide(src[1], src[2], targetBounds[2], targetScaleDown)
             IN  [bounds |-> << x, targetBounds[2] \div targetScaleDown >>,
                  xoffset |-> centre(targetBounds[1], x, targetScaleDown),
                  yoffset |-> 0]

Rect(b) == (0..(b[1] - 1)) \X (0..(b[2] - 1))

\* the veil pictures tried; every pixel is opaque, so removeAlpha keeps it
VeilKinds == {"black", "white", "ramp"}

veilAt(kind, x, y) ==
    IF kind = "black" THEN GrayColor(0)
    ELSE IF kind = "white" THEN GrayColor(nrgba64Max)
    ELSE [R |-> (x * 20000) % 65536, G |-> (y * 20000) % 65536,
          B |-> nrgba64Max, A |-> nrgba64Max]

\* darkenImage, one pixel
darkenPixel(px) ==
    [R |-> DarkenScale(px.R), G |-> DarkenScale(px.G), B |-> DarkenScale(px.B),
     A |-> px.A]

\* darkenImage(removeAlpha(thumbnail), thumbnailDarkenFactor): a raster of
\* its own, one darkened pixel for each pixel of the veil
darkenImage(kind, bounds) ==
    [p \in Rect(bounds) |-> darkenPixel(veilAt(kind, p[1], p[2]))]

\* darkThumbnail.NRGBA64At(x, y): the zero colour outside the bounds
darkThumbnailAt(x, y) ==
    IF <<x, y>> \in DOMAIN darkThumbnail THEN darkThumbnail[<<x, y>>]
    ELSE [R |-> 0, G |-> 0, B |-> 0, A |-> 0]

\* color.NRGBAModel.Convert of an opaque NRGBA64
toNRGBA(px) ==
    [R |-> px.R \div 256, G |-> px.G \div 256, B |-> px.B \div 256,
     A |-> px.A \div 256]

\* color.NRGBA64Model.Convert of an opaque NRGBA
toNRGBA64(px) ==
    [R |-> px.R * 257, G |-> px.G * 257, B |-> px.B * 257, A |-> px.A * 257]

\* dst.SetNRGBA(x, y, v): a point outside the bounds is left out
SetNRGBA(d, x, y, kind, v) ==
    IF <<x, y>> \in DOMAIN d
      THEN [d EXCEPT ![<<x, y>>] = [writes |-> Append(@.writes, kind), val |-> v]]
      ELSE d

\* a plausible slip: the east and the south sample stored in each other's place
supercellSwapped(d, x, y, newFullPixel, r) ==
    SetNRGBA(
      SetNRGBA(
        SetNRGBA(
          SetNRGBA(d, x, y, "reveal", newFullPixel),
          x + 1, y, "halo", r.newthumbsouth),
        x, y + 1, "halo", r.newthumbeast),
      x + 1, y + 1, "halo", r.newthumbsoutheast)

\* lines 705-708: the four pixels of the supercell at (x, y)
supercell(d, x, y, newFullPixel, r) ==
    SetNRGBA(
      SetNRGBA(
        SetNRGBA(
          SetNRGBA(d, x, y, "reveal", newFullPixel),
          x + 1, y, "halo", r.newthumbeast),
        x, y + 1, "halo", r.newthumbsouth),
      x + 1, y + 1, "halo", r.newthumbsoutheast)

\* a plausible slip: the veil samples taken from the canvas, where the fill
\* has put them cut to 8 bits
haloSamplesFromCanvas(x, y) ==
    LET at(i, j) == IF <<i, j>> \in DOMAIN dst THEN toNRGBA64(dst[<<i, j>>].val)
                    ELSE [R |-> 0, G |-> 0, B |-> 0, A |-> 0]
    IN  [thumb |-> at(x, y), thumbeast |-> at(x + 1, y),
         thumbsouth |-> at(x, y + 1), thumbsoutheast |-> at(x + 1, y + 1)]

\* lines 700-703: the four veil samples handed to removeHalo
haloSamples(x, y) ==
    [thumb |-> darkThumbnailAt(x, y),
     thumbeast |-> darkThumbnailAt(x + 1, y),
     thumbsouth |-> darkThumbnailAt(x, y + 1),
     thumbsoutheast |-> darkThumbnailAt(x + 1, y + 1)]

\* the linear pixels smallfull.At can return (the resampling itself is
\* golang.org/x/image/draw and not modelled)
SmallPixels ==
    { GrayColor(0), GrayColor(nrgba64Max),
      [R |-> 0, G |-> 30000, B |-> nrgba64Max, A |-> nrgba64Max] }

\* a plausible slip: the supercells one pixel apart
nextCellTooClose(d) == d + 1

\* dstx += fullScaling, dsty += fullScaling
nextCell(d) == d + fullScaling

ImgInit ==
    /\ ipc = "resize"
    /\ thumbBounds \in (1..MaxThumbW) \X (1..MaxThumbH)
    /\ fullBounds \in (1..MaxFull) \X (1..MaxFull)
    /\ veil \in VeilKinds
    /\ darkThumbnail = <<>>
    /\ dither \in BOOLEAN
    /\ stretch \in BOOLEAN
    /\ nanByte \in NaNBytes
    /\ smallBounds = <<0, 0>>
    /\ xoffset = 0
    /\ yoffset = 0
    /\ srcx = 0
    /\ srcy = 0
    /\ dstx = 0
    /\ dsty = 0
    /\ errcurr = <<>>
    /\ errnext = <<>>
    /\ srcnrgba = <<>>
    /\ errorval = <<>>
    /\ dst = <<>>
    /\ reads = <<>>
    /\ MuxIdle
    /\ HaloIdle
    /\ AlphaIdle
    /\ RunIdle
    /\ FrontIdle

\* lines 673-679: the reveal is resized, the veil is darkened and errnext is
\* made
Resize ==
    /\ ipc = "resize"
    /\ LET r == resize(fullBounds, thumbBounds, fullScaling, stretch)
       IN  /\ smallBounds' = r.bounds
           /\ xoffset' = r.xoffset
           /\ yoffset' = r.yoffset
           /\ errnext' = makeRow(rowLen(r.bounds[1]))
    /\ darkThumbnail' = darkenImage(veil, thumbBounds)
    /\ reads' = <<>>
    /\ ipc' = "fill"
    /\ UNCHANGED <<thumbBounds, fullBounds, veil, dither, stretch, srcx, srcy,
                   dstx, dsty, errcurr, srcnrgba, errorval, dst, nanByte,
                   notImgVars>>

\* lines 681-689: dst is made and filled with the darkened veil
Fill ==
    /\ ipc = "fill"
    /\ dst' = [p \in Rect(thumbBounds) |->
                 [writes |-> <<"veil">>, val |-> toNRGBA(darkThumbnailAt(p[1], p[2]))]]
    /\ dsty' = yoffset
    /\ srcy' = 0
    /\ ipc' = "row"
    /\ UNCHANGED <<reads, thumbBounds, fullBounds, veil, darkThumbnail, dither,
                   stretch, smallBounds,
                   xoffset, yoffset, srcx, dstx, errcurr, errnext, srcnrgba,
                   errorval, nanByte, notImgVars>>

\* lines 690-694: a row starts
RowStart ==
    /\ ipc = "row"
    /\ srcy < smallBounds[2]
    /\ errcurr' = errnext
    /\ errnext' = makeRow(rowLen(smallBounds[1]))
    /\ dstx' = xoffset
    /\ srcx' = 0
    /\ ipc' = "pixel"
    /\ UNCHANGED <<reads, thumbBounds, fullBounds, veil, darkThumbnail, dither,
                   stretch, smallBounds,
                   xoffset, yoffset, srcy, dsty, srcnrgba, errorval, dst,
                   nanByte, notImgVars>>

\* lines 695-709: one pixel of smallfull becomes one supercell of dst
Pixel ==
    /\ ipc = "pixel"
    /\ srcx < smallBounds[1]
    /\ \E px \in SmallPixels :
          LET q == calculateFullPixel(srcx, px, dither, errcurr, errnext)
              t == haloSamples(dstx, dsty)
              h == [full |-> toNRGBA64(q.pixel),
                    thumb |-> t.thumb,
                    thumbeast |-> t.thumbeast,
                    thumbsouth |-> t.thumbsouth,
                    thumbsoutheast |-> t.thumbsoutheast]
              r == removeHaloResult(h, nanByte)
          IN  /\ srcnrgba' = px
              /\ reads' = Append(reads, px)
              /\ errorval' = q.errorval
              /\ errcurr' = q.errcurr
              /\ errnext' = q.errnext
              /\ dst' = supercell(dst, dstx, dsty, q.pixel, r)
    /\ dstx' = nextCell(dstx)
    /\ srcx' = srcx + 1
    /\ UNCHANGED <<ipc, thumbBounds, fullBounds, veil, darkThumbnail, dither,
                   stretch,
                   smallBounds, xoffset, yoffset, srcy, dsty, nanByte,
                   notImgVars>>

\* line 711: the row is finished
RowEnd ==
    /\ ipc = "pixel"
    /\ srcx >= smallBounds[1]
    /\ dsty' = nextCell(dsty)
    /\ srcy' = srcy + 1
    /\ ipc' = "row"
    /\ UNCHANGED <<reads, thumbBounds, fullBounds, veil, darkThumbnail, dither,
                   stretch, smallBounds,
                   xoffset, yoffset, srcx, dstx, errcurr, errnext, srcnrgba,
                   errorval, dst, nanByte, notImgVars>>

\* line 714: return dst, nil
Return ==
    /\ ipc = "row"
    /\ srcy >= smallBounds[2]
    /\ ipc' = "done"
    /\ UNCHANGED <<reads, thumbBounds, fullBounds, veil, darkThumbnail, dither,
                   stretch, smallBounds,
                   xoffset, yoffset, srcx, srcy, dstx, dsty, errcurr, errnext,
                   srcnrgba, errorval, dst, nanByte, notImgVars>>

ImgNext ==
    \/ Resize
    \/ Fill
    \/ RowStart
    \/ Pixel
    \/ RowEnd
    \/ Return

(* resize on its own, for any source and target size                       *)

ResizeInit ==
    /\ ipc = "resizeCall"
    /\ thumbBounds \in (1..MaxSide) \X (1..MaxSide)
    /\ fullBounds \in (1..MaxSide) \X (1..MaxSide)
    /\ stretch \in BOOLEAN
    /\ veil = "black"
    /\ darkThumbnail = <<>>
    /\ dither = FALSE
    /\ nanByte = 0
    /\ smallBounds = <<0, 0>>
    /\ xoffset = 0
    /\ yoffset = 0
    /\ srcx = 0
    /\ srcy = 0
    /\ dstx = 0
    /\ dsty = 0
    /\ errcurr = <<>>
    /\ errnext = <<>>
    /\ srcnrgba = <<>>
    /\ errorval = <<>>
    /\ dst = <<>>
    /\ reads = <<>>
    /\ MuxIdle
    /\ HaloIdle
    /\ AlphaIdle
    /\ RunIdle
    /\ FrontIdle

ResizeCall ==
    /\ ipc = "resizeCall"
    /\ LET r == resize(fullBounds, thumbBounds, fullScaling, stretch)
       IN  /\ smallBounds' = r.bounds
           /\ xoffset' = r.xoffset
           /\ yoffset' = r.yoffset
    /\ ipc' = "resized"
    /\ UNCHANGED <<reads, thumbBounds, fullBounds, veil, darkThumbnail, dither,
                   stretch, srcx, srcy,
                   dstx, dsty, errcurr, errnext, srcnrgba, errorval, dst,
                   nanByte, notImgVars>>

ResizeNext == ResizeCall

----------------------------------------------------------------------------
(* GammaMuxImages called again and again by one process.  The variables   *)
(* that stand for the locals of a call keep what the previous call left    *)
(* in them until the new call assigns them.                                *)

RunThumbs == { <<w, fullScaling>> : w \in fullScaling..MaxRunW }

\* the input of the current call: the arguments and the pixels of smallfull
RunKey == <<thumbBounds, fullBounds, veil, dither, stretch, reads>>

RunsInit ==
    /\ ipc = "resize"
    /\ thumbBounds \in RunThumbs
    /\ fullBounds = <<1, 1>>
    /\ veil = "ramp"
    /\ darkThumbnail = <<>>
    /\ dither \in BOOLEAN
    /\ stretch = TRUE
    /\ nanByte = 0
    /\ smallBounds = <<0, 0>>
    /\ xoffset = 0
    /\ yoffset = 0
    /\ srcx = 0
    /\ srcy = 0
    /\ dstx = 0
    /\ dsty = 0
    /\ errcurr = <<>>
    /\ errnext = <<>>
    /\ srcnrgba = <<>>
    /\ errorval = <<>>
    /\ dst = <<>>
    /\ reads = <<>>
    /\ MuxIdle
    /\ HaloIdle
    /\ AlphaIdle
    /\ RunIdle
    /\ FrontIdle

\* the caller keeps the canvas of the call that has returned
Record ==
    /\ ipc = "done"
    /\ runs' = runs + 1
    /\ firstRun' = IF runs = 0 THEN [key |-> RunKey, dst |-> dst] ELSE firstRun
    /\ between' = (between \/ (runs > 0 /\ RunKey # firstRun.key))
    /\ ipc' = "recorded"
    /\ UNCHANGED <<thumbBounds, fullBounds, veil, darkThumbnail, dither,
                   stretch, smallBounds,
                   xoffset, yoffset, srcx, srcy, dstx, dsty, errcurr, errnext,
                   srcnrgba, errorval, dst, reads, nanByte, muxVars, hpc, halo,
                   haloOut, divZero, alphaVars, frontVars>>

\* line 664: GammaMuxImages is called once more, with any arguments
Invoke ==
    /\ ipc = "recorded"
    /\ runs < MaxRuns
    /\ thumbBounds' \in RunThumbs
    /\ dither' \in BOOLEAN
    /\ ipc' = "resize"
    /\ UNCHANGED <<fullBounds, veil, darkThumbnail, stretch, smallBounds,
                   xoffset, yoffset, srcx, srcy, dstx, dsty, errcurr, errnext,
                   srcnrgba, errorval, dst, reads, nanByte, notImgVars>>

RunsNext ==
    \/ Resize
    \/ Fill
    \/ RowStart
    \/ Pixel
    \/ RowEnd
    \/ Return
    \/ Record
    \/ Invoke

(* GammaMuxImages with dithering, on veils wide enough for a pixel that   *)
(* has a left and a right neighbour                                        *)

DitherInit ==
    /\ ipc = "resize"
    /\ thumbBounds \in { <<w, 2 * fullScaling>> : w \in (2 * fullScaling)..MaxDitherW }
    /\ fullBounds = <<1, 1>>
    /\ veil = "white"
    /\ darkThumbnail = <<>>
    /\ dither = TRUE
    /\ stretch = TRUE
    /\ nanByte = 0
    /\ smallBounds = <<0, 0>>
    /\ xoffset = 0
    /\ yoffset = 0
    /\ srcx = 0
    /\ srcy = 0
    /\ dstx = 0
    /\ dsty = 0
    /\ errcurr = <<>>
    /\ errnext = <<>>
    /\ srcnrgba = <<>>
    /\ errorval = <<>>
    /\ dst = <<>>
    /\ reads = <<>>
    /\ MuxIdle
    /\ HaloIdle
    /\ AlphaIdle
    /\ RunIdle
    /\ FrontIdle

(* removeAlpha                                                             *)

\* uint32(c) * uint32(a) >> 16 for 16-bit c and a, computed in two halves so
\* that no product exceeds 31 bits; the uint32 product itself cannot wrap
MulShift16(c, a) ==
    ((c * (a \div 256)) + ((c * (a % 256)) \div 256)) \div 256

\* uint32(px.R)*uint32(px.A)>>16 + nrgba64Max - uint32(px.A): a uint32
\* between 0 and 2 * nrgba64Max, so the 32-bit sum cannot wrap
blendSum(c, a) == MulShift16(c, a) + nrgba64Max - a

\* a plausible slip: the backdrop term left out
blendChannelNoBackdrop(c, a) == MulShift16(c, a) % 65536

\* uint16(...) of that sum
blendChannel(c, a) == blendSum(c, a) % 65536

\* the colour removeAlpha stores for px
flatten(px) ==
    IF px.A # nrgba64Max
      THEN [R |-> blendChannel(px.R, px.A), G |-> blendChannel(px.G, px.A),
            B |-> blendChannel(px.B, px.A), A |-> nrgba64Max]
      ELSE [R |-> px.R, G |-> px.G, B |-> px.B, A |-> nrgba64Max]

\* the alpha values tried
AlphaSamples == {0, 1, 32768, 65534, 65535}

\* the pixels color.NRGBA64Model.Convert(src.At(x, y)) can yield
AlphaPixels ==
    { [R |-> nrgba64Max, G |-> 32768, B |-> 1, A |-> a] : a \in AlphaSamples }
      \cup { [R |-> 65534, G |-> 65000, B |-> 0, A |-> 65500] }

\* the points of a rectangle with corner min and the given size
RectAt(min, size) ==
    (min[1]..(min[1] + size[1] - 1)) \X (min[2]..(min[2] + size[2] - 1))

\* image.NewNRGBA64: every pixel is the zero colour
NewNRGBA64(size) == [p \in Rect(size) |-> [R |-> 0, G |-> 0, B |-> 0, A |-> 0]]

AlphaInit ==
    /\ apc = "loop"
    /\ \E min \in {<<0, 0>>, <<1, 2>>} :
       \E size \in (1..MaxAlphaW) \X (1..MaxAlphaH) :
       \E pix \in [RectAt(min, size) -> AlphaPixels] :
          /\ alphaSrc = [min |-> min, size |-> size, pix |-> pix]
          /\ alphaDst = NewNRGBA64(size)
          /\ alphaX = min[1]
          /\ alphaY = min[2]
    /\ alphaDstx = 0
    /\ alphaDsty = 0
    /\ MuxIdle
    /\ HaloIdle
    /\ nanByte = 0
    /\ ImgIdle
    /\ RunIdle
    /\ FrontIdle

\* lines 468-486: one pixel is flattened and stored; after the last pixel
\* of a row the next row starts (lines 466-467, 487)
AlphaPixel ==
    /\ apc = "loop"
    /\ alphaY < alphaSrc.min[2] + alphaSrc.size[2]
    /\ alphaDst' = [alphaDst EXCEPT ![<<alphaDstx, alphaDsty>>] =
                       flatten(alphaSrc.pix[<<alphaX, alphaY>>])]
    /\ IF alphaX + 1 < alphaSrc.min[1] + alphaSrc.size[1]
         THEN /\ alphaX' = alphaX + 1
              /\ alphaDstx' = alphaDstx + 1
              /\ UNCHANGED <<alphaY, alphaDsty>>
         ELSE /\ alphaX' = alphaSrc.min[1]
              /\ alphaDstx' = 0
              /\ alphaY' = alphaY + 1
              /\ alphaDsty' = alphaDsty + 1
    /\ UNCHANGED <<apc, alphaSrc, notAlphaVars>>

\* line 489: return dst
AlphaReturn ==
    /\ apc = "loop"
    /\ alphaY >= alphaSrc.min[2] + alphaSrc.size[2]
    /\ apc' = "done"
    /\ UNCHANGED <<alphaSrc, alphaDst, alphaX, alphaY, alphaDstx, alphaDsty,
                   notAlphaVars>>

AlphaNext ==
    \/ AlphaPixel
    \/ AlphaReturn

----------------------------------------------------------------------------
(* The browser front end: main, watchFile, gen.  The program runs on one   *)
(* thread: the browser runs one callback at a time, and only while every   *)
(* goroutine is parked, so main is parked in its select whenever a         *)
(* callback starts.                                                        *)

\* the variables the front end leaves alone
notFrontVars == <<muxVars, haloVars, imgVars, alphaVars, runVars>>

\* the two file inputs; watchFile makes one channel for each
Elements == {"thumb", "full"}

\* what a file can hold: nothing, bytes that are no image, an image
FileData == { <<>>, <<0>>, <<1>> }

\* image.Decode accepts the data
Decodable(data) == data = <<1>>

\* a nil error
NoError == "nil"

fileOrErr(data, err) == [data |-> data, err |-> err]

noImageData == [src |-> "data:image/gif", data |-> <<>>]

\* setImage(data): the src the element "muxxed" is given
setImage(data) ==
    IF Len(data) # 0 THEN [src |-> "data:image/png", data |-> data]
    ELSE noImageData

publishError(m) == [innerText |-> m, className |-> "errorText"]

publishNotice(m) == [innerText |-> m, className |-> "noticeText"]

\* gen(thumb, full): GammaMuxData on the two buffers, which fails when
\* either cannot be decoded
gen(t, f) ==
    IF ~Decodable(t) THEN [dst |-> <<>>, err |-> "Unable to decode thumbnail"]
    ELSE IF ~Decodable(f) THEN [dst |-> <<>>, err |-> "Unable to decode full"]
    ELSE [dst |-> <<"png">> \o t \o f, err |-> NoError]

FrontInit ==
    /\ thumb = <<>>
    /\ full = <<>>
    /\ sending = NoSend
    /\ readers = [el \in Elements |-> 0]
    /\ timers = 0
    /\ shown = noImageData
    /\ notice = [innerText |-> "", className |-> ""]
    /\ changes = 0
    /\ genArgs = NoCall
    /\ MuxIdle
    /\ HaloIdle
    /\ nanByte = 0
    /\ ImgIdle
    /\ AlphaIdle
    /\ RunIdle

\* watchFile, the change callback: without exactly one file it sends the
\* zero fileOrErr, else it starts a FileReader and returns
Change(el) ==
    /\ sending = NoSend
    /\ changes < MaxChanges
    /\ changes' = changes + 1
    /\ \/ /\ sending' = [ch |-> el, val |-> fileOrErr(<<>>, NoError)]
          /\ readers' = readers
       \/ /\ readers' = [readers EXCEPT ![el] = @ + 1]
          /\ sending' = sending
    /\ UNCHANGED <<thumb, full, timers, shown, notice, genArgs, notFrontVars>>

\* watchFile, the onload callback: it sends the bytes of the file
OnLoad(el) ==
    /\ sending = NoSend
    /\ readers[el] > 0
    /\ readers' = [readers EXCEPT ![el] = @ - 1]
    /\ \E data \in FileData :
          sending' = [ch |-> el, val |-> fileOrErr(data, NoError)]
    /\ UNCHANGED <<thumb, full, timers, shown, notice, changes, genArgs,
                   notFrontVars>>

\* watchFile, the onerror callback: it sends the error
OnError(el) ==
    /\ sending = NoSend
    /\ readers[el] > 0
    /\ readers' = [readers EXCEPT ![el] = @ - 1]
    /\ sending' = [ch |-> el, val |-> fileOrErr(<<>>, "read error")]
    /\ UNCHANGED <<thumb, full, timers, shown, notice, changes, genArgs,
                   notFrontVars>>

\* main, one turn of the loop: the select takes the value sent on the
\* channel of el, then the code runs on to the next select
Receive(el) ==
    /\ sending # NoSend
    /\ sending.ch = el
    /\ LET r == sending.val
           newThumb == IF el = "thumb" /\ r.err = NoError THEN r.data ELSE thumb
           newFull == IF el = "full" /\ r.err = NoError THEN r.data ELSE full
           said == IF r.err # NoError THEN publishError(r.err) ELSE notice
       IN  /\ thumb' = newThumb
           /\ full' = newFull
           /\ shown' = setImage(<<>>)
           /\ IF Len(newThumb) = 0 \/ Len(newFull) = 0
                 THEN /\ notice' = said
                      /\ timers' = timers
                 ELSE /\ notice' = publishNotice("Working...")
                      /\ timers' = timers + 1
    /\ sending' = NoSend
    /\ UNCHANGED <<readers, changes, genArgs, notFrontVars>>

\* the callback given to setTimeout: gen on the buffers as they are now
Timeout ==
    /\ sending = NoSend
    /\ timers > 0
    /\ timers' = timers - 1
    /\ genArgs' = [thumb |-> thumb, full |-> full]
    /\ LET g == gen(thumb, full)
       IN  IF g.err # NoError
             THEN notice' = publishError(g.err) /\ shown' = shown
             ELSE shown' = setImage(g.dst) /\ notice' = publishNotice("")
    /\ UNCHANGED <<thumb, full, sending, readers, changes, notFrontVars>>

FrontNext ==
    \/ \E el \in Elements : Change(el)
    \/ \E el \in Elements : OnLoad(el)
    \/ \E el \in Elements : OnError(el)
    \/ \E el \in Elements : Receive(el)
    \/ Timeout

----------------------------------------------------------------------------
(* Specifications                                                          *)

vars == <<muxVars, haloVars, imgVars, alphaVars, runVars, frontVars>>

\* GammaMuxData from its first statement to its return
SpecMux == MuxInit /\ [][MuxNext]_vars

\* writeGamaPngChunk called on an empty writer
SpecGama == GamaInit /\ [][GamaNext]_vars

\* removeHalo applied to the samples of one supercell
SpecHalo == HaloInit /\ [][HaloNext]_vars

\* GammaMuxImages from the resize to its return
SpecImages == ImgInit /\ [][ImgNext]_vars

\* resize called with the bounds of a veil and of a reveal
SpecResize == ResizeInit /\ [][ResizeNext]_vars

\* GammaMuxImages called up to MaxRuns times in a row
SpecRuns == RunsInit /\ [][RunsNext]_vars

\* GammaMuxImages with dither = true
SpecDither == DitherInit /\ [][ImgNext]_vars

\* removeAlpha applied to one raster
SpecAlpha == AlphaInit /\ [][AlphaNext]_vars

\* the front end under any order of the callbacks
SpecFront == FrontInit /\ [][FrontNext]_vars

\* the front end with the Go scheduler running main when it can run: a
\* send to main's select makes main runnable, and the callback that sent
\* returns to the browser only after main has parked again
SpecFrontLive ==
    SpecFront /\ WF_vars(Receive("thumb")) /\ WF_vars(Receive("full"))

----------------------------------------------------------------------------
(* Properties of the chunk writer                                          *)

Succeeded == pc = "done" /\ ret = RetNil

Abs(n) == IF n < 0 THEN -n ELSE n

\* big-endian value of four bytes whose first byte is below 128
Uint32(b) == ((b[1] * 256 + b[2]) * 256 + b[3]) * 256 + b[4]

\* the offset of the first occurrence of the header signature in s
SigAt(s, i) == i + 8 <= Len(s) /\ \A j \in 1..8 : s[i + j] = ihdrSig[j]
SigOccurs(s) == \E i \in 0..Len(s) : SigAt(s, i)
FirstSig(s) ==
    CHOOSE i \in 0..Len(s) : SigAt(s, i) /\ \A j \in 0..(i - 1) : ~SigAt(s, j)

\* C1: after GammaMuxData succeeds, dest holds the encoded stream with the
\* gamma record inserted and nothing else changed: dest is the three writes
\* in order, the second is the 16-byte record, and deleting it from dest
\* leaves buf byte for byte (so everything after the header chunk, the
\* terminal IEND included, is in place and in order).
C1_SpliceOnlyInserts ==
    Succeeded =>
        /\ Len(writes) = 3
        /\ dest = writes[1] \o writes[2] \o writes[3]
        /\ writes[2] = gamaBuf(targetGamma)
        /\ Len(dest) = Len(buf) + Len(writes[2])
        /\ \E i \in 0..Len(buf) :
              SubSeq(dest, 1, i) \o SubSeq(dest, i + Len(writes[2]) + 1, Len(dest)) = buf
        /\ writes[1] \o writes[3] = buf
        /\ Slice(dest, Len(dest) - Len(IendChunk), Len(dest)) = IendChunk

C1_Witness ==
    /\ Succeeded
    /\ Len(buf) > Len(PngMagic) + Len(IhdrChunk) + Len(IdatChunk) + Len(IendChunk)

\* C2: whenever the record is inserted, it sits directly after the full
\* record of the first header chunk: with the signature first occurring at
\* offset i of the encoded stream, dest holds buf[0 : i+4+4+13+4] unchanged,
\* then the record at offset i+4+4+13+4, before any other chunk.
C2_RecordAfterFirstHeader ==
    Succeeded =>
        LET i == FirstSig(buf)
            at == i + 4 + 4 + 13 + 4
        IN  /\ SigOccurs(buf)
            /\ Slice(dest, 0, at) = Slice(buf, 0, at)
            /\ Slice(dest, at, at + 16) = writes[2]
            /\ Slice(dest, at + 4, at + 8) = <<103, 65, 77, 65>>

\* the signature occurs twice and the first occurrence is not at offset 8
C2_Witness ==
    /\ Succeeded
    /\ Cardinality(Hits(buf, ihdrSig)) >= 2
    /\ FirstSig(buf) # 8

\* C3 as stated: the record written by writeGamaPngChunk has 20 bytes
C3_RecordHas20Bytes ==
    (pc = "done" /\ writes # <<>>) => Len(writes[1]) = 20

\* C3 (amended): the record written by writeGamaPngChunk is a fixed 16-byte
\* structure: a 4-byte length field equal to 4, the 4-byte tag 'gAMA', the
\* 4-byte big-endian gamma value and a 4-byte CRC32 (IEEE) computed over
\* tag and value, not over the length field.  For gamma = 44 the CRC is
\* 94 F1 38 AB.
C3_RecordLayout ==
    (pc = "done" /\ writes # <<>>) =>
        LET r == writes[1]
        IN  /\ Len(r) = 16
            /\ Slice(r, 0, 4) = <<0, 0, 0, 4>>
            /\ Uint32(Slice(r, 0, 4)) = Len(Slice(r, 8, 12))
            /\ Slice(r, 4, 8) = <<103, 65, 77, 65>>
            /\ Uint32(Slice(r, 8, 12)) = gamaValue(gamma)
            /\ Slice(r, 12, 16) = ChecksumIEEE(Slice(r, 4, 12))
            /\ (gamma[1] = 44 * gamma[2] =>
                   Slice(r, 12, 16) = <<148, 241, 56, 171>>)

C3_Witness ==
    /\ pc = "done"
    /\ ret = RetNil
    /\ gamma = <<44, 1>>
    /\ dest = writes[1]

\* re-parsing a PNG stream: walk the chunks from offset off and return the
\* data of the first chunk of type 'gAMA', or <<>> when there is none
RECURSIVE GamaData(_, _)
GamaData(s, off) ==
    IF off + 12 > Len(s) \/ s[off + 1] >= 128 THEN <<>>
    ELSE LET n == Uint32(Slice(s, off, off + 4))
         IN  IF off + 12 + n > Len(s) THEN <<>>
             ELSE IF Slice(s, off + 4, off + 8) = <<103, 65, 77, 65>>
                  THEN Slice(s, off + 8, off + 8 + n)
                  ELSE GamaData(s, off + 12 + n)

\* buf is what a PNG encoder writes: the magic, then the header chunk
IsPng(s) == Len(s) >= 16 /\ Slice(s, 0, 16) = PngMagic \o ihdrSig

\* C4: chunk round trip.  After GammaMuxData succeeded on a PNG stream,
\* re-parsing dest chunk by chunk finds a gAMA chunk whose 4-byte value v is
\* round(100000 / targetGamma), the integer nearest to 100000/targetGamma,
\* and the decoded v / 100000 lies within 1/100000 of 1/targetGamma, the
\* quantity the field encodes (with targetGamma = n/d:
\* |v*n - 100000*d| <= n/2, hence |v/100000 - d/n| <= 1/100000).
C4_ChunkRoundTrip ==
    (Succeeded /\ IsPng(buf)) =>
        LET data == GamaData(dest, Len(PngMagic))
            n == targetGamma[1]
            d == targetGamma[2]
        IN  /\ Len(data) = 4
            /\ 2 * Abs(Uint32(data) * n - 100000 * d) <= n
            /\ Abs(Uint32(data) * n - 100000 * d) * 100000 <= n * 100000

C4_Witness ==
    /\ Succeeded
    /\ IsPng(buf)
    /\ Uint32(GamaData(dest, Len(PngMagic))) = 2273

----------------------------------------------------------------------------
(* Properties of removeHalo                                                *)

\* the three corrected samples of channel c, as output codes
Corrected(c) ==
    <<haloOut.newthumbeast[c], haloOut.newthumbsouth[c], haloOut.newthumbsoutheast[c]>>
\* the three raw veil samples of channel c, 16 bits
Raw(c) == <<halo.thumbeast[c], halo.thumbsouth[c], halo.thumbsoutheast[c]>>
Sum3(t) == t[1] + t[2] + t[3]
\* the reveal sample of channel c as an output code
Reveal8(c) == halo.full[c] \div 257

\* four times the mean of the three corrected samples and the reveal sample
MeanOut4(c) == Sum3(Corrected(c)) + Reveal8(c)

\* no clamp engages in channel c: the three raw samples do not sum to 0, the
\* factor (sum3 + v - f)/sum3 is not negative and no raw sample times the
\* factor exceeds the black ceiling
Unclamped(c) ==
    /\ Sum3(Raw(c)) > 0
    /\ Sum3(Raw(c)) + halo.thumb[c] - halo.full[c] >= 0
    /\ \A i \in 1..3 :
          MulDivRound(Raw(c)[i],
                      Sum3(Raw(c)) + halo.thumb[c] - halo.full[c], Sum3(Raw(c)))
              <= DarkenScale(nrgbaMax * 256)

\* C7 as stated: for every channel the mean of the three corrected samples
\* and the reveal sample is within 1 output code of the top-left darkened
\* veil value thumb/256, whatever the samples are.
C7_MeanEqualsThumb ==
    hpc = "done" =>
        \A c \in Channels : Abs(256 * MeanOut4(c) - 4 * halo.thumb[c]) <= 4 * 256

\* C7 (amended): in every channel where no clamp engages (the factor
\* (sum3 + v - f)/sum3 is defined and >= 0 and no corrected sample is cut at
\* the black ceiling), the mean of the three corrected samples and the
\* reveal sample is within 1 output code of the mean of the four darkened
\* veil samples of the supercell, (v + east + south + southeast)/4; when the
\* three neighbours equal v that is the top-left value v itself.
C7_MeanEqualsVeilMean ==
    hpc = "done" =>
        \A c \in Channels :
            Unclamped(c) =>
                /\ Abs(256 * MeanOut4(c) - (Sum3(Raw(c)) + halo.thumb[c])) <= 4 * 256
                /\ (\A i \in 1..3 : Raw(c)[i] = halo.thumb[c]) =>
                       Abs(256 * MeanOut4(c) - 4 * halo.thumb[c]) <= 4 * 256

\* a flat supercell whose red samples are corrected downwards but not to 0
C7_Witness ==
    /\ hpc = "done"
    /\ Unclamped("R")
    /\ \A i \in 1..3 : Raw("R")[i] = halo.thumb.R
    /\ \A i \in 1..3 : Corrected("R")[i] > 0
    /\ \A i \in 1..3 : Corrected("R")[i] < Raw("R")[i] \div 256

\* C8: when the three raw veil samples of a channel sum to 0, removeHalo
\* divides by no zero and returns the raw samples (the factor is taken as 1).
C8_ZeroSumLeavesSamples ==
    hpc = "done" =>
        \A c \in Channels :
            Sum3(Raw(c)) = 0 =>
                /\ c \notin divZero
                /\ \A i \in 1..3 : Corrected(c)[i] = Raw(c)[i] \div 256

\* C9: every corrected veil sample lies in [0, thumbnailDarkenFactor * 255],
\* that is, since it is an integer, in 0..186.
C9_CorrectedBelowCeiling ==
    hpc = "done" =>
        \A c \in Channels : \A i \in 1..3 :
            /\ Corrected(c)[i] >= 0
            /\ Corrected(c)[i] * thumbnailDarkenFactor[2]
                  <= nrgbaMax * thumbnailDarkenFactor[1]

----------------------------------------------------------------------------
(* Properties of GammaMuxImages                                            *)

\* the pixels covered by the supercells: smallBounds scaled by fullScaling,
\* moved by the offsets
InCell(p) ==
    /\ xoffset <= p[1] /\ p[1] < xoffset + fullScaling * smallBounds[1]
    /\ yoffset <= p[2] /\ p[2] < yoffset + fullScaling * smallBounds[2]

\* the top-left pixel of a supercell holds the reveal sample
CellKind(p) ==
    IF (p[1] - xoffset) % fullScaling = 0 /\ (p[2] - yoffset) % fullScaling = 0
      THEN "reveal" ELSE "halo"

\* C6 as stated: the canvas has the veil's dimensions and every pixel is
\* written exactly once, as a member of a supercell.
C6_EveryPixelOnceInCell ==
    ipc = "done" =>
        /\ DOMAIN dst = Rect(thumbBounds)
        /\ \A p \in DOMAIN dst :
              /\ Len(dst[p].writes) = 1
              /\ dst[p].writes[1] \in {"reveal", "halo"}

\* C6 (amended): the canvas has exactly the veil's dimensions.  Every pixel
\* is first written once with the darkened veil value; then each supercell
\* (1 reveal sample at its top-left pixel, 3 halo-corrected veil samples) is
\* written exactly once, the supercells are disjoint and inside the canvas.
\* So a pixel inside a supercell is written exactly twice, and a pixel
\* outside every supercell (odd last row or column, the borders of fit
\* mode) exactly once, keeping the darkened veil value.
C6_FillThenCellsOnce ==
    ipc = "done" =>
        /\ DOMAIN dst = Rect(thumbBounds)
        /\ xoffset >= 0 /\ xoffset + fullScaling * smallBounds[1] <= thumbBounds[1]
        /\ yoffset >= 0 /\ yoffset + fullScaling * smallBounds[2] <= thumbBounds[2]
        /\ \A p \in DOMAIN dst :
              IF InCell(p)
                THEN /\ dst[p].writes = <<"veil", CellKind(p)>>
                     /\ CellKind(p) = "reveal" => dst[p].val.R >= minFullValue
                ELSE /\ dst[p].writes = <<"veil">>
                     /\ dst[p].val = toNRGBA(darkenPixel(veilAt(veil, p[1], p[2])))
        /\ \A i \in 0..(smallBounds[1] - 1) : \A j \in 0..(smallBounds[2] - 1) :
              LET x == xoffset + fullScaling * i
                  y == yoffset + fullScaling * j
              IN  /\ dst[<<x, y>>].writes[2] = "reveal"
                  /\ dst[<<x + 1, y>>].writes[2] = "halo"
                  /\ dst[<<x, y + 1>>].writes[2] = "halo"
                  /\ dst[<<x + 1, y + 1>>].writes[2] = "halo"

\* fit mode with a border on the left and at least two supercells
C6_Witness ==
    /\ ipc = "done"
    /\ ~stretch
    /\ xoffset > 0
    /\ smallBounds[1] * smallBounds[2] >= 2
    /\ \E p \in DOMAIN dst : Len(dst[p].writes) = 1
    /\ \E p \in DOMAIN dst : Len(dst[p].writes) = 2

\* C10: error floor.  For every pixel the quantizer has processed, after
\* any sequence of earlier pixels, the value obtained by adding the pending
\* error and clamping is at least 1/255 in every channel, never zero or
\* negative.
C10_ErrorFloor ==
    errorval # <<>> =>
        /\ errorval.R >= FixOne \div nrgbaMax /\ errorval.R > 0
        /\ errorval.G >= FixOne \div nrgbaMax /\ errorval.G > 0
        /\ errorval.B >= FixOne \div nrgbaMax /\ errorval.B > 0

\* with dithering on, a black pixel that follows a black pixel in its row:
\* the pending error it read is negative and the clamp lifted it to 1/255
C10_Witness ==
    /\ ipc = "pixel"
    /\ dither
    /\ srcx >= 2
    /\ srcnrgba = GrayColor(0)
    /\ errcurr[srcx + 1].R < 0
    /\ errorval.R = FixOne \div nrgbaMax

----------------------------------------------------------------------------
(* Properties of resize                                                    *)

\* canvasBounds/k on axis i
CanvasOverK(i) == thumbBounds[i] \div fullScaling
\* the offset resize returned for axis i
OffsetOf(i) == IF i = 1 THEN xoffset ELSE yoffset
\* the canvas pixels left of (above) and right of (below) the supercells
LeadGap(i) == OffsetOf(i)
TrailGap(i) == thumbBounds[i] - OffsetOf(i) - fullScaling * smallBounds[i]
\* the source is wider than the target, by cross-multiplication
SourceWider == fullBounds[1] * thumbBounds[2] > thumbBounds[1] * fullBounds[2]

\* C11: in fit mode the bounds resize returns lie within canvasBounds/k on
\* both axes, at least one axis equals canvasBounds/k exactly, and on each
\* axis the two border gaps (canvas pixels before and after the supercells)
\* are not negative and differ by at most 1.
C11_FitContained ==
    (ipc = "resized" /\ ~stretch) =>
        /\ \A i \in 1..2 : 0 <= smallBounds[i] /\ smallBounds[i] <= CanvasOverK(i)
        /\ \E i \in 1..2 : smallBounds[i] = CanvasOverK(i)
        /\ \A i \in 1..2 :
              /\ LeadGap(i) >= 0
              /\ TrailGap(i) >= 0
              /\ Abs(LeadGap(i) - TrailGap(i)) <= 1

\* a tall reveal on a wide canvas: borders of 2 and 3 pixels left and right
C11_Witness ==
    /\ ipc = "resized"
    /\ ~stretch
    /\ smallBounds[1] < CanvasOverK(1)
    /\ smallBounds[1] > 0
    /\ LeadGap(1) >= 2
    /\ TrailGap(1) = LeadGap(1) + 1

\* C12 as stated: the offset of the shorter axis is
\* floor((canvasAxis/k - scaledAxis)/2) and the other offset is 0.
C12_OffsetInResampledUnits ==
    (ipc = "resized" /\ ~stretch) =>
        IF SourceWider
          THEN xoffset = 0 /\ yoffset = (CanvasOverK(2) - smallBounds[2]) \div 2
          ELSE yoffset = 0 /\ xoffset = (CanvasOverK(1) - smallBounds[1]) \div 2

\* C12 (amended): the axis is selected by the cross-multiplication
\* srcW*dstH > dstW*srcH; the selected (shorter) axis gets the offset
\* floor((canvasAxis - k*scaledAxis)/2), counted in canvas pixels, and the
\* matching axis gets size canvasAxis/k and offset 0.
C12_OffsetInCanvasPixels ==
    (ipc = "resized" /\ ~stretch) =>
        IF SourceWider
          THEN /\ smallBounds[1] = CanvasOverK(1)
               /\ xoffset = 0
               /\ yoffset = (thumbBounds[2] - fullScaling * smallBounds[2]) \div 2
          ELSE /\ smallBounds[2] = CanvasOverK(2)
               /\ yoffset = 0
               /\ xoffset = (thumbBounds[1] - fullScaling * smallBounds[1]) \div 2

\* a wide reveal on a tall canvas, moved down by 2 or more canvas pixels
C12_Witness ==
    /\ ipc = "resized"
    /\ ~stretch
    /\ SourceWider
    /\ smallBounds[2] > 0
    /\ yoffset >= 2
    /\ yoffset # (CanvasOverK(2) - smallBounds[2]) \div 2

\* C13: in stretch mode resize returns the size canvasBounds/k on both axes
\* (integer division) and the offsets (0, 0), whatever the source size is.
C13_StretchFillsCanvas ==
    (ipc = "resized" /\ stretch) =>
        /\ \A i \in 1..2 : smallBounds[i] = CanvasOverK(i)
        /\ 2 * smallBounds[1] <= thumbBounds[1] /\ thumbBounds[1] <= 2 * smallBounds[1] + 1
        /\ 2 * smallBounds[2] <= thumbBounds[2] /\ thumbBounds[2] <= 2 * smallBounds[2] + 1
        /\ xoffset = 0
        /\ yoffset = 0

\* a tall narrow reveal stretched over an odd-sized wide canvas
C13_Witness ==
    /\ ipc = "resized"
    /\ stretch
    /\ fullBounds[1] * thumbBounds[2] < thumbBounds[1] * fullBounds[2]
    /\ thumbBounds[1] % 2 = 1
    /\ smallBounds[1] >= 2

----------------------------------------------------------------------------
(* Properties of removeAlpha                                               *)

\* in*alpha/alphaMax + backdrop*(alphaMax - alpha)/alphaMax over the white
\* backdrop, rounded to the nearest integer
blendNearest(c, a) == MulDivRound(c, a, nrgba64Max) + (nrgba64Max - a)

\* the source pixel stored at point p of dst
SourceOf(p) == alphaSrc.pix[<<p[1] + alphaSrc.min[1], p[2] + alphaSrc.min[2]>>]

\* C14: removeAlpha returns a raster of the source's dimensions whose pixels
\* are all opaque, and every output channel equals
\* in*alpha/alphaMax + backdrop*(alphaMax - alpha)/alphaMax rounded to the
\* nearest integer, the sum staying within 16 bits.
C14_FlattenNearest ==
    apc = "done" =>
        /\ DOMAIN alphaDst = Rect(alphaSrc.size)
        /\ \A p \in DOMAIN alphaDst :
              /\ alphaDst[p].A = nrgba64Max
              /\ \A c \in Channels :
                    /\ alphaDst[p][c] = blendNearest(SourceOf(p)[c], SourceOf(p).A)
                    /\ blendSum(SourceOf(p)[c], SourceOf(p).A) <= nrgba64Max

----------------------------------------------------------------------------
(* The black floor                                                         *)

\* what a gamma-aware viewer shows for the stored code v when the file
\* declares targetGamma and the display has sourceGamma:
\* round(255 * (v/255)^(targetGamma/sourceGamma)), exponent 20, for v = 0..255
ViewerTable ==
    <<
       0, 0, 0, 0, 0, 0, 0, 0, 0, 0, 0, 0, 0, 0, 0, 0,
       0, 0, 0, 0, 0, 0, 0, 0, 0, 0, 0, 0, 0, 0, 0, 0,
       0, 0, 0, 0, 0, 0, 0, 0, 0, 0, 0, 0, 0, 0, 0, 0,
       0, 0, 0, 0, 0, 0, 0, 0, 0, 0, 0, 0, 0, 0, 0, 0,
       0, 0, 0, 0, 0, 0, 0, 0, 0, 0, 0, 0, 0, 0, 0, 0,
       0, 0, 0, 0, 0, 0, 0, 0, 0, 0, 0, 0, 0, 0, 0, 0,
       0, 0, 0, 0, 0, 0, 0, 0, 0, 0, 0, 0, 0, 0, 0, 0,
       0, 0, 0, 0, 0, 0, 0, 0, 0, 0, 0, 0, 0, 0, 0, 0,
       0, 0, 0, 0, 0, 0, 0, 0, 0, 0, 0, 0, 0, 0, 0, 0,
       0, 0, 0, 0, 0, 0, 0, 0, 0, 0, 0, 0, 0, 0, 0, 0,
       0, 0, 0, 0, 0, 0, 0, 0, 0, 0, 0, 0, 0, 0, 0, 0,
       0, 0, 0, 0, 0, 0, 0, 0, 0, 0, 0, 1, 1, 1, 1, 1,
       1, 1, 1, 1, 1, 1, 2, 2, 2, 2, 2, 3, 3, 3, 4, 4,
       4, 5, 5, 6, 6, 7, 8, 8, 9, 10, 11, 12, 13, 15, 16, 17,
       19, 21, 23, 25, 27, 30, 32, 35, 39, 42, 46, 50, 54, 59, 64, 70,
       76, 82, 90, 97, 106, 115, 124, 135, 146, 158, 172, 186, 201, 218, 236, 255
    >>

ViewerCode(v) == ViewerTable[v + 1]

\* the write that decided the value of canvas pixel p
LastWrite(p) == dst[p].writes[Len(dst[p].writes)]

\* C15: every veil pixel of the returned canvas, halo-corrected or not, is
\* at or below the black ceiling thumbnailDarkenFactor * 255 and is shown
\* as output code 0 by a gamma-aware viewer; so is the darkened maximum
\* channel value as the 8-bit canvas stores it.
C15_VeilRendersBlack ==
    ipc = "done" =>
        /\ ViewerCode(DarkenScale(nrgba64Max) \div 256) = 0
        /\ \A p \in DOMAIN dst :
              LastWrite(p) # "reveal" =>
                  \A c \in Channels :
                      /\ dst[p].val[c] * thumbnailDarkenFactor[2]
                            <= nrgbaMax * thumbnailDarkenFactor[1]
                      /\ ViewerCode(dst[p].val[c]) = 0

----------------------------------------------------------------------------
(* Properties of the quantization pass                                     *)

\* every slot of an error row is zero
AllZero(row) == \A i \in DOMAIN row : row[i] = ZeroErr

\* the 8-bit value of one linear channel value quantized on its own
QuantizeAlone(c) == scaleClamp(nonneg(c * (FixOne \div nrgba64Max)))

\* the canvas position of the reveal sample written last
LastCell == <<dstx - fullScaling, dsty>>

\* C16: with dithering disabled both error rows are all-zero at every point
\* of the pass, and the reveal sample written for a pixel is a function of
\* that pixel's own resampled value only: each channel is the value
\* quantized on its own, with no pending error added.
C16_NoFeedbackWithoutDither ==
    ~dither =>
        /\ AllZero(errcurr)
        /\ AllZero(errnext)
        /\ (ipc = "pixel" /\ srcx > 0) =>
              /\ \A c \in Channels :
                    errorval[c] = nonneg(srcnrgba[c] * (FixOne \div nrgba64Max))
              /\ LastCell \in DOMAIN dst =>
                    /\ LastWrite(LastCell) = "reveal"
                    /\ \A c \in Channels :
                          dst[LastCell].val[c] = QuantizeAlone(srcnrgba[c])

\* the second pixel of the second row, quantized with an error that
\* dithering would have spread
C16_Witness ==
    /\ ~dither
    /\ ipc = "pixel"
    /\ srcy >= 1
    /\ srcx >= 2
    /\ LastCell \in DOMAIN dst
    /\ diffOf(errorval.G) # 0

----------------------------------------------------------------------------
(* Properties of the error handling of GammaMuxData                        *)

\* the order of the operations of GammaMuxData
StepOrder ==
    << "decodeThumbnail", "decodeFull", "muxImages", "encode", "index",
       "writeHeader", "writeGama", "writeRest" >>

\* the operation a failure message names, read from its words
NamedStep(msg) ==
    IF msg = "Unable to decode thumbnail" THEN "decodeThumbnail"
    ELSE IF msg = "Unable to decode full" THEN "decodeFull"
    ELSE IF msg = "Unable to encode dest PNG" THEN "encode"
    ELSE IF msg = "PNG missing header" THEN "index"
    ELSE IF msg = "Unable to write PNG header" THEN "writeHeader"
    ELSE IF msg = "Unable to write PNG gAMA chunk" THEN "writeGama"
    ELSE "none"

Failed == pc = "done" /\ ret # RetNil

\* the operations ran in the fixed order, none twice, none skipped
StepsInOrder == steps = SubSeq(StepOrder, 1, Len(steps))

\* C17: the operations of GammaMuxData run in the order decode veil, decode
\* reveal, composite, encode, locate header, write header part, write gamma
\* record, write remainder, each at most once; when one fails the call
\* returns at once with a failure that names that operation and wraps its
\* cause, and nothing runs afterwards; success is returned only after all
\* eight ran.
C17_FailFastNamesStep ==
    /\ Len(steps) <= Len(StepOrder)
    /\ StepsInOrder
    /\ pc = "done" => ~ENABLED MuxNext
    /\ Succeeded => steps = StepOrder
    /\ Failed =>
          /\ NamedStep(ret.msg) = steps[Len(steps)]
          /\ ret.cause = IF steps[Len(steps)] = "index" THEN "nil" ELSE "err"

----------------------------------------------------------------------------
(* Determinism across calls                                                *)

\* the call that is returning has the input of the first call
RepeatsFirst == ipc = "done" /\ runs > 0 /\ RunKey = firstRun.key

\* C18: GammaMuxImages keeps nothing between calls: a call that returns
\* with the same arguments and the same resampled pixels as the first call
\* returns the same canvas, whatever calls were made in between.
C18_SameInputSameOutput == RepeatsFirst => dst = firstRun.dst

\* the third call repeats the dithered first one after a different second
\* call, and leaves error terms behind in its turn
C18_Witness ==
    /\ RepeatsFirst
    /\ runs = 2
    /\ between
    /\ dither
    /\ Len(reads) = 2
    /\ ~AllZero(errnext)

----------------------------------------------------------------------------
(* The layout of the canvas in stretch mode without dithering              *)

\* the supercell canvas point p falls in, counted in supercells
CellOf(p) == <<p[1] \div fullScaling, p[2] \div fullScaling>>

\* p lies in a supercell that exists
HasCell(p) == CellOf(p)[1] < smallBounds[1] /\ CellOf(p)[2] < smallBounds[2]

\* the resampled linear sample read for the supercell of p
SampleOf(p) == reads[CellOf(p)[2] * smallBounds[1] + CellOf(p)[1] + 1]

\* quantize: each channel on its own, alpha cut to 8 bits
Quantized(px) ==
    [R |-> QuantizeAlone(px.R), G |-> QuantizeAlone(px.G),
     B |-> QuantizeAlone(px.B), A |-> px.A \div 256]

\* haloCorrect(darken(veil)) for the supercell of p: what removeHalo returns
\* for the quantized reveal sample and the four darkened veil samples
HaloOf(p) ==
    LET x == CellOf(p)[1] * fullScaling
        y == CellOf(p)[2] * fullScaling
    IN  removeHaloResult(
          [full |-> toNRGBA64(Quantized(SampleOf(p))),
           thumb |-> darkThumbnailAt(x, y),
           thumbeast |-> darkThumbnailAt(x + 1, y),
           thumbsouth |-> darkThumbnailAt(x, y + 1),
           thumbsoutheast |-> darkThumbnailAt(x + 1, y + 1)], nanByte)

\* what a supercell holds at p
CellValue(p) ==
    IF p[1] % fullScaling = 0 /\ p[2] % fullScaling = 0 THEN Quantized(SampleOf(p))
    ELSE IF p[2] % fullScaling = 0 THEN HaloOf(p).newthumbeast
    ELSE IF p[1] % fullScaling = 0 THEN HaloOf(p).newthumbsouth
    ELSE HaloOf(p).newthumbsoutheast

StretchedPlain == ipc = "done" /\ stretch /\ ~dither

\* C19 as stated: in stretch mode without dithering the canvas has the
\* veil's dimensions, every position with x and y both even holds the
\* quantized reveal sample and every other position holds the
\* halo-corrected darkened veil sample of its supercell.
C19_EveryPositionInSupercell ==
    StretchedPlain =>
        /\ DOMAIN dst = Rect(thumbBounds)
        /\ \A p \in DOMAIN dst : HasCell(p) /\ dst[p].val = CellValue(p)

\* C19 (amended): in stretch mode without dithering the canvas has the
\* veil's dimensions; inside the supercells, which cover the columns below
\* 2*(width/2) and the rows below 2*(height/2), a position with x and y both
\* even holds the quantized resampled reveal sample and every other
\* position holds the halo-corrected darkened veil sample of its supercell;
\* a position in an odd last column or row holds the darkened veil sample
\* cut to 8 bits.
C19_StretchLayout ==
    StretchedPlain =>
        /\ DOMAIN dst = Rect(thumbBounds)
        /\ \A p \in DOMAIN dst :
              /\ HasCell(p) <=> /\ p[1] < fullScaling * (thumbBounds[1] \div fullScaling)
                                /\ p[2] < fullScaling * (thumbBounds[2] \div fullScaling)
              /\ dst[p].val = IF HasCell(p) THEN CellValue(p)
                              ELSE toNRGBA(darkThumbnailAt(p[1], p[2]))

\* a 5 x 4 ramp veil: four supercells and an odd last column
C19_Witness ==
    /\ StretchedPlain
    /\ thumbBounds = <<5, 4>>
    /\ veil = "ramp"
    /\ Len(reads) = 4
    /\ reads[1] # reads[2]
    /\ reads[2] # reads[3]

----------------------------------------------------------------------------
(* The order of the error diffusion                                        *)

\* the deposits the slot of pixel (x, y) must hold when the pixel is read:
\* 1/16 from (x-1, y-1), 5/16 from (x, y-1), 3/16 from (x+1, y-1), made while
\* the row above was quantized left to right, then 7/16 from (x-1, y)
ExpectedSources(x, y) ==
    (IF x >= 1 /\ y >= 1 THEN <<1>> ELSE <<>>)
      \o (IF y >= 1 THEN <<5>> ELSE <<>>)
      \o (IF y >= 1 /\ x + 1 < smallBounds[1] THEN <<3>> ELSE <<>>)
      \o (IF x >= 1 THEN <<7>> ELSE <<>>)

\* pixel (srcx, srcy) is about to be quantized
AboutToRead == ipc = "pixel" /\ srcx < smallBounds[1]

\* what one step of the pass may do: a pixel step moves one pixel right in
\* the same row and leaves the slots of the pixels read so far as they are;
\* a row ends only after its last pixel and the next row is the one below;
\* a row starts at its first pixel with current = the previous next and
\* next all-zero
OrderedStep ==
    /\ (ipc = "pixel" /\ ipc' = "pixel") =>
          /\ srcx' = srcx + 1
          /\ srcy' = srcy
          /\ \A i \in 1..(srcx + 2) : errcurr'[i] = errcurr[i]
    /\ (ipc = "pixel" /\ ipc' = "row") =>
          /\ srcx = smallBounds[1]
          /\ srcy' = srcy + 1
    /\ (ipc = "row" /\ ipc' = "pixel") =>
          /\ srcx' = 0
          /\ srcy' = srcy
          /\ errcurr' = errnext
          /\ Len(errnext') = smallBounds[1] + 2
          /\ AllZero(errnext')

\* C20: the pixels are quantized row by row, left to right; each row starts
\* with current = the previous next and a fresh all-zero next; when pixel
\* (x, y) reads current[x+1] the slot holds exactly the deposits of
\* (x-1, y-1), (x, y-1), (x+1, y-1) and (x-1, y), as far as these pixels
\* exist, and no later step of the row writes that slot.
C20_ErrorOrdering ==
    /\ [](AboutToRead => errcurr[srcx + 2].sources = ExpectedSources(srcx, srcy))
    /\ [][OrderedStep]_vars

\* a pixel of the second row with a neighbour on either side reads a slot
\* that holds all four deposits and a pending error that is not 0
C20_Witness ==
    /\ AboutToRead
    /\ dither
    /\ srcy >= 1
    /\ srcx >= 1
    /\ srcx + 1 < smallBounds[1]
    /\ errcurr[srcx + 2].sources = <<1, 5, 3, 7>>
    /\ errcurr[srcx + 2].G # 0

----------------------------------------------------------------------------
(* Properties of the error distribution                                    *)

\* the residual of the pixel a step has just quantized, per channel
Residual(e) == [R |-> diffOf(e.R), G |-> diffOf(e.G), B |-> diffOf(e.B)]

\* what slot i of a row gained in the step, in sixteenths of the residual d:
\* exactly w of them in every channel
Gained(before, after, i, d, w) ==
    /\ after[i].R - before[i].R = w * d.R
    /\ after[i].G - before[i].G = w * d.G
    /\ after[i].B - before[i].B = w * d.B

\* the total the two rows gained in the step, for one channel
TotalGain(c) ==
    LET cur == [i \in DOMAIN errcurr |-> errcurr'[i][c] - errcurr[i][c]]
        nxt == [i \in DOMAIN errnext |-> errnext'[i][c] - errnext[i][c]]
        RECURSIVE SumTo(_, _)
        SumTo(f, n) == IF n = 0 THEN 0 ELSE f[n] + SumTo(f, n - 1)
    IN  SumTo(cur, Len(errcurr)) + SumTo(nxt, Len(errnext))

\* a pixel step with dithering on: pixel srcx is quantized
DitherStep == dither /\ ipc = "pixel" /\ ipc' = "pixel"

FloydSteinbergStep ==
    DitherStep =>
        LET d == Residual(errorval')
        IN  /\ Gained(errcurr, errcurr', srcx + 3, d, 7)
            /\ Gained(errnext, errnext', srcx + 1, d, 3)
            /\ Gained(errnext, errnext', srcx + 2, d, 5)
            /\ Gained(errnext, errnext', srcx + 3, d, 1)
            /\ \A i \in DOMAIN errcurr : i # srcx + 3 => errcurr'[i] = errcurr[i]
            /\ \A i \in DOMAIN errnext :
                  i \notin {srcx + 1, srcx + 2, srcx + 3} => errnext'[i] = errnext[i]
            /\ TotalGain("R") = Sixteenths * d.R
            /\ TotalGain("G") = Sixteenths * d.G
            /\ TotalGain("B") = Sixteenths * d.B

\* C21: with dithering on, the residual of pixel x goes 7/16 to the slot of
\* column x+1 in the current row (index x+2), 3/16, 5/16 and 1/16 to the
\* slots of columns x-1, x and x+1 in the next row (indices x, x+1, x+2);
\* the four amounts add up to exactly the residual and no other slot of
\* either row changes.
C21_FloydSteinbergWeights == [][FloydSteinbergStep]_vars

\* a pixel with a residual that is not 0 has just been quantized, and the
\* slot of its right neighbour holds the 7/16 share as its last deposit
C21_Witness ==
    /\ ipc = "pixel"
    /\ dither
    /\ srcx >= 1
    /\ errorval # <<>>
    /\ diffOf(errorval.G) # 0
    /\ diffOf(errorval.G) % Sixteenths # 0
    /\ errcurr[srcx + 2].sources # <<>>
    /\ errcurr[srcx + 2].sources[Len(errcurr[srcx + 2].sources)] = 7
    /\ errnext[srcx + 2].sources = <<1>>

----------------------------------------------------------------------------
(* The rasters of the stages                                               *)

\* the darkened veil has been built
VeilBuilt == ipc \in {"fill", "row", "pixel", "done"}

\* the supercell with its top-left corner at p has been written
CellWritten(p) == p \in DOMAIN dst /\ dst[p].writes = <<"veil", "reveal">>

\* halo compensation computed from the raster of the darkened veil: the
\* reveal sample the canvas holds at p and the four raw veil samples of the
\* supercell at p
RawHalo(p) ==
    removeHaloResult(
      [full |-> toNRGBA64(dst[p].val),
       thumb |-> darkThumbnail[p],
       thumbeast |-> darkThumbnail[<<p[1] + 1, p[2]>>],
       thumbsouth |-> darkThumbnail[<<p[1], p[2] + 1>>],
       thumbsoutheast |-> darkThumbnail[<<p[1] + 1, p[2] + 1>>]], nanByte)

\* once built the darkened veil is what darkenImage made of the veil, pixel
\* for pixel, and the three corrected samples of every supercell written
\* are those of RawHalo
RawVeilRead ==
    VeilBuilt =>
        /\ darkThumbnail = darkenImage(veil, thumbBounds)
        /\ \A p \in DOMAIN dst :
              CellWritten(p) =>
                  /\ dst[<<p[1] + 1, p[2]>>].val = RawHalo(p).newthumbeast
                  /\ dst[<<p[1], p[2] + 1>>].val = RawHalo(p).newthumbsouth
                  /\ dst[<<p[1] + 1, p[2] + 1>>].val = RawHalo(p).newthumbsoutheast

\* no step after the build changes the darkened veil
VeilKept == VeilBuilt => darkThumbnail' = darkThumbnail

\* C22: no stage changes the raster of another stage.  The darkened veil
\* is built before it is read and never changes afterwards; the halo
\* compensation of every supercell reads the raw darkened veil samples and
\* never the canvas, so the corrected samples of a supercell are a function
\* of its own four veil samples and its reveal sample only.
C22_StagesKeepTheirRasters == []RawVeilRead /\ [][VeilKept]_vars

\* a finished canvas over a ramp veil with two supercells or more, one of
\* them with a corrected sample that differs from the plain darkened sample
\* and from what the 8-bit canvas value would have given
C22_Witness ==
    /\ ipc = "done"
    /\ veil = "ramp"
    /\ Len(reads) >= 2
    /\ \E p \in DOMAIN dst :
          /\ CellWritten(p)
          /\ dst[<<p[1] + 1, p[2]>>].val # toNRGBA(darkThumbnail[<<p[1] + 1, p[2]>>])
          /\ toNRGBA64(toNRGBA(darkThumbnail[<<p[1] + 1, p[2]>>]))
                # darkThumbnail[<<p[1] + 1, p[2]>>]

----------------------------------------------------------------------------
(* The indices of the error rows                                           *)

\* the Go indices of a row of the given length
Indices(row) == 0..(Len(row) - 1)

\* the indices calculateFullPixel uses for column x: current is read at x+1
\* and written at x+2, next is written at x, x+1 and x+2
CurrentAccess(x) == {x + 1, x + 2}
NextAccess(x) == {x, x + 1, x + 2}

\* C23: both error rows have length outputWidth+2 whenever a pixel is
\* quantized, for every output width from 0 on, and for every column x of
\* the output the indices x+1, x+2 used in the current row and x, x+1, x+2
\* used in the next row are inside the row.
C23_ErrorRowIndexSafety ==
    /\ VeilBuilt => Len(errnext) = smallBounds[1] + 2
    /\ ipc = "pixel" =>
          /\ Len(errcurr) = smallBounds[1] + 2
          /\ \A x \in 0..(smallBounds[1] - 1) :
                /\ CurrentAccess(x) \subseteq Indices(errcurr)
                /\ NextAccess(x) \subseteq Indices(errnext)

\* the last column of a row two or more wide has been quantized with
\* dithering: the last slot of either row has received its share
C23_Witness ==
    /\ ipc = "pixel"
    /\ dither
    /\ smallBounds[1] >= 2
    /\ srcx = smallBounds[1]
    /\ errcurr[Len(errcurr)].sources = <<7>>
    /\ errnext[Len(errnext)].sources = <<1>>
    /\ errnext[1].sources = <<3>>

----------------------------------------------------------------------------
(* The padding slots of the error rows                                     *)

\* the value a pixel gets from the slot with Go index i of the current row
ValueFrom(px, i) ==
    [R |-> errorOf(px.R, errcurr[i + 1].R),
     G |-> errorOf(px.G, errcurr[i + 1].G),
     B |-> errorOf(px.B, errcurr[i + 1].B)]

\* a pixel step reads the slot srcx+1 of the current row and no other: the
\* index is one of 1..outputWidth, never a padding slot
ReadsOwnSlot ==
    (ipc = "pixel" /\ ipc' = "pixel") =>
        /\ srcx + 1 \in 1..smallBounds[1]
        /\ errorval' = ValueFrom(srcnrgba', srcx + 1)

\* a dithered row has been quantized to its end
RowQuantized == ipc = "pixel" /\ dither /\ srcx = smallBounds[1] /\ srcx >= 1

\* the last deposit a slot has received
LastSource(slot) == slot.sources[Len(slot.sources)]

\* at the end of a dithered row the padding slots hold the shares that left
\* the image: slot 0 of next the 3/16 of column 0, the last slot of current
\* the 7/16 and the last slot of next the 1/16 of the last column
EdgeShares ==
    RowQuantized =>
        /\ errnext[1].sources = <<3>>
        /\ LastSource(errcurr[Len(errcurr)]) = 7
        /\ errnext[Len(errnext)].sources = <<1>>

\* a padding slot of current is as the start of the row left it until the
\* last column writes the last one: slot 0 is never written in the row
PaddingKept ==
    (ipc = "pixel" /\ ipc' = "pixel") => errcurr'[1] = errcurr[1]

\* C24: the only slots of an error row that are ever read are 1 to
\* outputWidth.  The 3/16 share of column 0 (slot 0 of next) and the 7/16
\* and 1/16 shares of the last column (slot outputWidth+1 of current and of
\* next) are deposited but never added to a pixel: at the edges of the image
\* that part of the residual is dropped.
C24_PaddingNeverRead == []EdgeShares /\ [][ReadsOwnSlot /\ PaddingKept]_vars

\* the second dithered row has been quantized to its end: slot 0 of current
\* still holds the 3/16 share of column 0 of the row above and its last slot
\* the 1/16 and 7/16 shares of the last columns, none of them 0, and no
\* pixel has read them
C24_Witness ==
    /\ RowQuantized
    /\ srcy >= 1
    /\ errcurr[1].sources = <<3>>
    /\ errcurr[1].G # 0
    /\ errcurr[Len(errcurr)].sources = <<1, 7>>
    /\ errcurr[Len(errcurr)].G # 0

----------------------------------------------------------------------------
(* The positions the supercells are written at                             *)

\* the four positions lines 705-708 write for the pixel about to be quantized
WritePositions ==
    { <<dstx, dsty>>, <<dstx + 1, dsty>>, <<dstx, dsty + 1>>, <<dstx + 1, dsty + 1>> }

\* the canvas has been filled with the darkened veil
Filled == ipc \in {"row", "pixel", "done"}

\* C25: for every canvas size, source size and layout mode the four write
\* positions of every supercell, (dstx, dsty), (dstx+1, dsty), (dstx, dsty+1)
\* and (dstx+1, dsty+1) with dstx = xoffset+2i and dsty = yoffset+2j, are
\* inside the canvas; a canvas pixel that belongs to no supercell (odd last
\* row or column, border of fit mode) holds the darkened veil value, written
\* once by the fill, at every moment from the fill on.
C25_CellsInsideCanvas ==
    /\ AboutToRead =>
          /\ dstx = xoffset + fullScaling * srcx
          /\ dsty = yoffset + fullScaling * srcy
          /\ WritePositions \subseteq DOMAIN dst
          /\ DOMAIN dst = Rect(thumbBounds)
    /\ Filled =>
          \A p \in DOMAIN dst :
              ~InCell(p) => dst[p] = [writes |-> <<"veil">>,
                                      val |-> toNRGBA(darkThumbnail[p])]

\* fit mode over a veil of odd width: the last supercell of the canvas is
\* about to be written, there is a border on the left, and the pixels left
\* and right of the supercells hold a veil value that is not black
C25_Witness ==
    /\ AboutToRead
    /\ ~stretch
    /\ veil = "white"
    /\ xoffset > 0
    /\ xoffset + fullScaling * smallBounds[1] < thumbBounds[1]
    /\ srcx = smallBounds[1] - 1
    /\ srcy = smallBounds[2] - 1
    /\ dst[<<0, 0>>].val.R > 0
    /\ dst[<<thumbBounds[1] - 1, 0>>].writes = <<"veil">>

----------------------------------------------------------------------------
(* What GammaMuxData hands to dest                                         *)

\* the operations that do not touch dest
BeforeWrites == {"decodeThumbnail", "decodeFull", "muxImages", "encode", "index"}

\* the operation GammaMuxData carried out last
LastStep == steps[Len(steps)]

\* the three slices of a complete output: the bytes of buf up to the end of
\* the header chunk, the gamma record, the bytes of buf after the header chunk
ThreeWrites ==
    << SubSeq(buf, 1, headerIndex + 25),
       gamaBuf(targetGamma),
       SubSeq(buf, headerIndex + 26, Len(buf)) >>

\* s is the beginning of t and shorter than t
ProperPrefix(s, t) == Len(s) < Len(t) /\ s = SubSeq(t, 1, Len(s))

\* C26: GammaMuxData writes nothing to dest unless both decodes, the
\* compositing, the encoding and the header search have succeeded: while
\* these run, and when one of them fails, dest has received no write and no
\* byte.  On success dest has received exactly three writes, the header
\* part, the gamma record and the remainder, in this order and whole.  A
\* call that fails with bytes or writes handed to dest failed in a write to
\* dest, and dest then holds a proper beginning of the complete output.
C26_WritesOnlyAfterSuccess ==
    /\ (steps = <<>> \/ LastStep \in BeforeWrites) =>
          writes = <<>> /\ dest = <<>>
    /\ Len(writes) <= 3
    /\ writes # <<>> => writes = SubSeq(ThreeWrites, 1, Len(writes))
    /\ Succeeded =>
          /\ writes = ThreeWrites
          /\ dest = ThreeWrites[1] \o ThreeWrites[2] \o ThreeWrites[3]
    /\ (Failed /\ writes # <<>>) =>
          /\ LastStep \notin BeforeWrites
          /\ ret.cause = "err"
          /\ ProperPrefix(dest, ThreeWrites[1] \o ThreeWrites[2] \o ThreeWrites[3])

\* the write of the remainder failed after the first two writes had gone
\* through: dest holds a stream that stops after the gamma record or just
\* beyond it
C26_Witness ==
    /\ Failed
    /\ Len(writes) = 3
    /\ Len(dest) > Len(ThreeWrites[1]) + Len(ThreeWrites[2])
    /\ headerIndex > 8

----------------------------------------------------------------------------
(* Properties of the browser front end                                     *)

\* gen has only been called with two buffers that are not empty
GenHasBothBuffers ==
    genArgs # NoCall => Len(genArgs.thumb) > 0 /\ Len(genArgs.full) > 0

\* a value a callback sends is received by main
EveryEventReceived == (sending # NoSend) ~> (sending = NoSend)

\* main takes a read error and returns to its select with both buffers as
\* they were
ErrorKeepsBuffers ==
    (sending # NoSend /\ sending.val.err # NoError /\ sending' = NoSend) =>
        thumb' = thumb /\ full' = full

\* C27: in the event loop of the front end, under every order of the
\* change events of the two inputs and the deferred generation callbacks,
\* gen only ever runs with a veil buffer and a reveal buffer that are both
\* not empty, every file event sent on a channel is received by main in the
\* end, and a read error leaves the buffers loaded before as they are.
C27_FrontEndLoop ==
    /\ []GenHasBothBuffers
    /\ EveryEventReceived
    /\ [][ErrorKeepsBuffers]_vars

\* what the code keeps of it: every value sent is received, and a read
\* error leaves both buffers as they are
ReceivedAndKept == EveryEventReceived /\ [][ErrorKeepsBuffers]_vars

====
